---- MODULE Spec2Model ----
(***************************************************************************)
(* micro_vm: a textual assembly language is parsed into instructions,      *)
(* assembled by a two-pass compiler into a byte image, loaded into a       *)
(* 16-register / 1024-byte virtual machine and executed.                   *)
(*                                                                         *)
(* The model follows the pipeline of the repository:                       *)
(*   source statements --Parse--> ParsedInst list --Compile--> image       *)
(*   --Load (VM::set per byte)--> Reset --> one action per opcode arm of   *)
(*   VM::run.                                                              *)
(***************************************************************************)
EXTENDS Integers, Sequences, FiniteSets, TLC

(***************************************************************************)
(* Bounds of the model.                                                    *)
(***************************************************************************)
\* instructions executed by one run of the VM
MaxSteps == 10
\* statements of the programs enumerated over the assembler alphabet
MaxAsmLen == 3

(***************************************************************************)
(* vm.rs: opcodes (enum Inst, repr(u8)), register roles, length table.     *)
(***************************************************************************)
Nop == 0
Exit == 1
JumpFw == 2
JumpBw == 3
Then == 4
Otherwise == 5
SetByte == 6
SetShort == 7
Push == 8
Pop == 9
Add == 10
Sub == 11
Mul == 12
Div == 13
Mod == 14
Neg == 15
GreaterThan == 16
LessThan == 17
GreaterEqual == 18
LessEqual == 19
Equal == 20
NotEqual == 21
Return == 22
Call == 23
Mov == 24
Debug == 25

SP_REGISTER == 15
AT_REGISTER == 14
\* registers: [u16; 16], ram: [u8; 1024]
NUM_REGISTERS == 16
RAM_LEN == 1024

\* INSTRUCTION_LEN[opcode], the table is 0-indexed in the source
INSTRUCTION_LEN_TABLE ==
  << 1, 1, 2, 2, 1, 1, 3, 4, 2, 2, 3, 3, 3, 3, 3, 2, 3, 3, 3, 3, 3, 3, 1, 3, 3, 3 >>

\* variant: the table gives Neg the length of a two-register instruction
INSTRUCTION_LEN_neg_3(op) == IF op = Neg THEN 3 ELSE INSTRUCTION_LEN_TABLE[op + 1]

INSTRUCTION_LEN(op) == INSTRUCTION_LEN_TABLE[op + 1]

(***************************************************************************)
(* Fixed-width integer arithmetic of the source (u8, u16, i8, i16).        *)
(***************************************************************************)
\* x as u8
AsU8(x) == x % 256
\* x as u16
AsU16(x) == x % 65536
\* (x: u16) as i16
AsI16(x) == IF x >= 32768 THEN x - 65536 ELSE x
\* (x: u8) as i8
AsI8(x) == IF x >= 128 THEN x - 256 ELSE x
\* x >> 8 on a u16
Shr8(x) == x \div 256
\* (high << 8) | low for high, low < 256
Shl8Or(high, low) == AsU16(high * 256) + low

Abs(x) == IF x < 0 THEN 0 - x ELSE x
\* i16 / i16 of Rust: quotient truncated towards zero
TruncDiv(x, y) ==
  IF (x < 0) = (y < 0) THEN Abs(x) \div Abs(y) ELSE 0 - (Abs(x) \div Abs(y))
\* i16 % i16 of Rust: remainder with the sign of the dividend
TruncRem(x, y) == x - y * TruncDiv(x, y)
\* the result does not fit i16
OverflowsI16(v) == v < (0 - 32768) \/ v > 32767
\* the result does not fit u16
OverflowsU16(v) == v < 0 \/ v > 65535

(***************************************************************************)
(* Text produced by the Debug instruction: sequences of characters.        *)
(***************************************************************************)
LowerDigits == << "0","1","2","3","4","5","6","7","8","9","a","b","c","d","e","f" >>
UpperDigits == << "0","1","2","3","4","5","6","7","8","9","A","B","C","D","E","F" >>

RECURSIVE FormatRadix(_, _, _)
\* the digits of n in the given base, most significant first, no padding
FormatRadix(n, base, digits) ==
  IF n < base THEN << digits[n + 1] >>
  ELSE Append(FormatRadix(n \div base, base, digits), digits[(n % base) + 1])

RECURSIVE ZeroPad(_, _)
\* left padding with '0' to a minimum width
ZeroPad(s, width) == IF Len(s) >= width THEN s ELSE ZeroPad(<< "0" >> \o s, width)

\* the text of print!/println! for a debug mode 0-4 and 10-14
FormatMode(mode, v) ==
  LET m == mode % 10
      body == CASE m = 0 -> FormatRadix(v, 10, LowerDigits)
                [] m = 1 -> FormatRadix(v, 16, LowerDigits)
                [] m = 2 -> ZeroPad(FormatRadix(v, 10, LowerDigits), 5)
                [] m = 3 -> ZeroPad(FormatRadix(v, 16, UpperDigits), 4)
                [] m = 4 -> << "0", "x" >> \o ZeroPad(FormatRadix(v, 16, UpperDigits), 4)
  IN  IF mode < 10 THEN Append(body, "\n") ELSE body

RecognizedMode(mode) == mode \in {0, 1, 2, 3, 4, 10, 11, 12, 13, 14}

(***************************************************************************)
(* assembler.rs, Parser.  A source line is kept as the texts of its tokens *)
(* after the lexer: the head identifier, up to two identifier operands,    *)
(* the value of an integer operand and whether a colon follows the head.   *)
(***************************************************************************)
Stmt(name, r1, r2, int, colon) ==
  [name |-> name, r1 |-> r1, r2 |-> r2, int |-> int, colon |-> colon]

\* enum ParsedInst; the fields a and b hold dst/src, left/right, val, mode
PInst(op, a, b, label) == [op |-> op, a |-> a, b |-> b, label |-> label]

RegisterNames ==
  << <<"zero", "z">>, <<"$0", "a">>, <<"$1", "b">>, <<"$2", "c">>, <<"$3", "d">>,
     <<"$4", "e">>, <<"$5", "f">>, <<"$6", "g">>, <<"$7", "h">>, <<"$8", "i">>,
     <<"$9", "j">>, <<"$10", "k">>, <<"$11", "l">>, <<"$12", "m">>,
     <<"at", "at">>, <<"sp", "sp">> >>

\* Parser::parse_reg: Ok(index) or Err
parse_reg(text) ==
  IF \E i \in 1..16 : text \in {RegisterNames[i][1], RegisterNames[i][2]}
  THEN [ok |-> TRUE,
        reg |-> (CHOOSE i \in 1..16 : text \in {RegisterNames[i][1], RegisterNames[i][2]}) - 1]
  ELSE [ok |-> FALSE, reg |-> 0]

ParseOk(inst) == [ok |-> TRUE, inst |-> inst, err |-> ""]
ParseErr(msg) == [ok |-> FALSE, inst |-> PInst("Nop", 0, 0, ""), err |-> msg]

\* the mnemonics of parse_instruction by operand shape
NoOperandOps ==
  [nop |-> "Nop", exit |-> "Exit", then |-> "Then", else |-> "Otherwise", ret |-> "Return"]
OneRegOps == [push |-> "Push", pop |-> "Pop", neg |-> "Neg"]
TwoRegOps ==
  [add |-> "Add", sub |-> "Sub", mul |-> "Mul", div |-> "Div", mod |-> "Mod",
   gt |-> "GreaterThan", lt |-> "LessThan", ge |-> "GreaterEqual", le |-> "LessEqual",
   eq |-> "Equal", neq |-> "NotEqual", mov |-> "Mov"]
LabelOps == [jmp |-> "Jump", call |-> "Call"]

\* variant: the wide form from 255 on
set_inst_from_255(dst, arg2) ==
  IF arg2 >= 255 THEN PInst("SetShort", dst, AsU16(arg2), "")
  ELSE PInst("SetByte", dst, AsU8(arg2), "")

\* the arm "set": the wide form for an immediate above 255, else the narrow one
set_inst(dst, arg2) ==
  IF arg2 > 255 THEN PInst("SetShort", dst, AsU16(arg2), "")
  ELSE PInst("SetByte", dst, AsU8(arg2), "")

\* Parser::parse_instruction for one line
parse_instruction(st) ==
  LET r1 == parse_reg(st.r1)
      r2 == parse_reg(st.r2)
  IN  CASE st.name \in DOMAIN NoOperandOps ->
             ParseOk(PInst(NoOperandOps[st.name], 0, 0, ""))
        [] st.name \in DOMAIN LabelOps ->
             ParseOk(PInst(LabelOps[st.name], 0, 0, st.r1))
        [] st.name = "set" ->
             IF ~r1.ok THEN ParseErr("Expected register name")
             ELSE ParseOk(set_inst(r1.reg, st.int))
        [] st.name \in DOMAIN OneRegOps ->
             IF ~r1.ok THEN ParseErr("Expected register name")
             ELSE ParseOk(PInst(OneRegOps[st.name], r1.reg, 0, ""))
        [] st.name \in DOMAIN TwoRegOps ->
             IF ~r1.ok \/ ~r2.ok THEN ParseErr("Expected register name")
             ELSE ParseOk(PInst(TwoRegOps[st.name], r1.reg, r2.reg, ""))
        [] st.name = "dbg" ->
             IF ~r1.ok THEN ParseErr("Expected register name")
             ELSE ParseOk(PInst("Debug", r1.reg, st.int, ""))
        [] OTHER ->
             IF st.colon THEN ParseOk(PInst("Label", 0, 0, st.name))
             ELSE ParseErr("Found unexpected symbol")

RECURSIVE parse_from(_, _, _)
\* Parser::parse: the instructions of all lines, or the first error
parse_from(stmts, k, acc) ==
  IF k > Len(stmts) THEN [ok |-> TRUE, insts |-> acc, err |-> ""]
  ELSE LET r == parse_instruction(stmts[k])
       IN  IF r.ok THEN parse_from(stmts, k + 1, Append(acc, r.inst))
           ELSE [ok |-> FALSE, insts |-> << >>, err |-> r.err]

parse(stmts) == parse_from(stmts, 1, << >>)

(***************************************************************************)
(* assembler.rs, read_all_tokens.  A source text is a sequence of bytes,   *)
(* each written as a string of one character; positions count from 0.      *)
(***************************************************************************)
DigitChars == {"0", "1", "2", "3", "4", "5", "6", "7", "8", "9"}
HexDigitChars ==
  DigitChars \cup {"a", "b", "c", "d", "e", "f"} \cup {"A", "B", "C", "D", "E", "F"}
IdChars ==
  {"a", "b", "c", "d", "e", "f", "g", "h", "i", "j", "k", "l", "m", "n", "o", "p", "q",
   "r", "s", "t", "u", "v", "w", "x", "y", "z", "_"}

\* struct Token: the type and the span (start, end) in the source
Token(type, start, end) == [type |-> type, span |-> << start, end >>]

\* the first position from ptr on whose byte is outside the class, or the
\* length of the source: where the loops over digits and letters stop
RunEnd(src, ptr, class) ==
  LET stops == { i \in ptr..(Len(src) - 1) : src[i + 1] \notin class }
  IN  IF stops = {} THEN Len(src) ELSE CHOOSE i \in stops : \A j \in stops : i <= j

\* where the arm b';' stops: at the next line feed or at the end
LineEnd(src, ptr) ==
  LET stops == { i \in ptr..(Len(src) - 1) : src[i + 1] = "\n" }
  IN  IF stops = {} THEN Len(src) ELSE CHOOSE i \in stops : \A j \in stops : i <= j

\* the test that makes an integer literal hexadecimal
HexPrefix(src, ptr) ==
  /\ src[ptr + 1] = "0"
  /\ ptr + 2 < Len(src)
  /\ src[ptr + 2] = "x"
  /\ src[ptr + 3] \in DigitChars

RECURSIVE read_from(_, _, _)
\* the loop of read_all_tokens from position ptr on
read_from(src, ptr, res) ==
  IF ptr >= Len(src) THEN Append(res, Token("Eof", ptr, ptr))
  ELSE LET c == src[ptr + 1]
       IN  CASE c = ";" -> read_from(src, LineEnd(src, ptr), res)
             [] c = " " -> read_from(src, ptr + 1, res)
             [] c = "," -> read_from(src, ptr + 1, Append(res, Token("Comma", ptr, ptr + 1)))
             [] c = "\n" -> read_from(src, ptr + 1, Append(res, Token("NewLine", ptr, ptr + 1)))
             [] c = ":" -> read_from(src, ptr + 1, Append(res, Token("Colon", ptr, ptr + 1)))
             [] c \in DigitChars ->
                  LET hex == HexPrefix(src, ptr)
                      end == IF hex THEN RunEnd(src, ptr + 2, HexDigitChars)
                             ELSE RunEnd(src, ptr, DigitChars)
                  IN  read_from(src, end, Append(res, Token("Int", ptr, end)))
             [] c \in IdChars ->
                  LET end == RunEnd(src, ptr, IdChars)
                  IN  read_from(src, end, Append(res, Token("Id", ptr, end)))
             [] OTHER -> read_from(src, ptr + 1, res)

read_all_tokens(src) == read_from(src, 0, << >>)

(***************************************************************************)
(* assembler.rs, Parser on the tokens of a text.                           *)
(***************************************************************************)
RECURSIVE Join(_)
\* the string made of the bytes
Join(bytes) ==
  IF Len(bytes) = 0 THEN "" ELSE Join(SubSeq(bytes, 1, Len(bytes) - 1)) \o bytes[Len(bytes)]

\* Parser::tk and Parser::str
tk(tokens, at) == tokens[at + 1]
str(src, span) == Join(SubSeq(src, span[1] + 1, span[2]))

\* the value of a decimal digit
DigitValue(c) == (CHOOSE d \in 1..10 : LowerDigits[d] = c) - 1

RECURSIVE DigitsValue(_)
\* the number written by at most nine decimal digits
DigitsValue(digits) ==
  IF Len(digits) = 0 THEN 0
  ELSE 10 * DigitsValue(SubSeq(digits, 1, Len(digits) - 1)) + DigitValue(digits[Len(digits)])

\* the digits without leading zeros
Significant(digits) ==
  SubSeq(digits, RunEnd(digits, 0, {"0"}) + 1, Len(digits))

\* str::parse::<i32> on the text of an Int token: a value up to i32::MAX, or
\* an error for a byte that is no decimal digit and for a greater number
parse_i32(digits) ==
  LET sig == Significant(digits)
      front == DigitsValue(SubSeq(sig, 1, 9))
  IN  IF Len(digits) = 0 \/ \E i \in 1..Len(digits) : digits[i] \notin DigitChars
      THEN [ok |-> FALSE, value |-> 0]
      ELSE IF Len(sig) <= 9 THEN [ok |-> TRUE, value |-> DigitsValue(sig)]
      ELSE IF Len(sig) > 10 THEN [ok |-> FALSE, value |-> 0]
      ELSE IF front > 214748364 \/ (front = 214748364 /\ DigitValue(sig[10]) > 7)
      THEN [ok |-> FALSE, value |-> 0]
      ELSE [ok |-> TRUE, value |-> 10 * front + DigitValue(sig[10])]

StmtOk(st, at) == [ok |-> TRUE, st |-> st, pos |-> at, err |-> ""]
StmtErr(msg) == [ok |-> FALSE, st |-> Stmt("", "", "", 0, FALSE), pos |-> 0, err |-> msg]

\* variant: a NewLine is required after every instruction
end_of_line_strict(tokens, st, at) ==
  IF tk(tokens, at).type = "NewLine" THEN StmtOk(st, at + 1)
  ELSE StmtErr("Expected NewLine")

\* the end of parse_instruction: a NewLine is consumed unless Eof follows
end_of_line(tokens, st, at) ==
  IF tk(tokens, at).type = "Eof" THEN StmtOk(st, at)
  ELSE IF tk(tokens, at).type = "NewLine" THEN StmtOk(st, at + 1)
  ELSE StmtErr("Expected NewLine")

\* consume_id and parse_reg at a position: the error, if any
id_error(tokens, at) ==
  IF tk(tokens, at).type # "Id" THEN "Expected Id" ELSE ""
reg_error(src, tokens, at) ==
  IF tk(tokens, at).type # "Id" THEN "Expected Id"
  ELSE IF ~parse_reg(str(src, tk(tokens, at).span)).ok THEN "Expected register name"
  ELSE ""
\* consume(Comma) and consume_int at a position: the error, if any
comma_error(tokens, at) ==
  IF tk(tokens, at).type # "Comma" THEN "Expected Comma" ELSE ""
int_error(src, tokens, at) ==
  IF tk(tokens, at).type # "Int" THEN "Expected Int"
  ELSE IF ~parse_i32(SubSeq(src, tk(tokens, at).span[1] + 1, tk(tokens, at).span[2])).ok
  THEN "Unable to parse integer"
  ELSE ""

\* the tokens parse_instruction consumes from the Id at position `at` on:
\* the line they make and the position behind them, or the first error
read_statement(src, tokens, at) ==
  LET name == str(src, tk(tokens, at).span)
      word(k) == str(src, tk(tokens, at + k).span)
      int(k) == parse_i32(SubSeq(src, tk(tokens, at + k).span[1] + 1,
                                 tk(tokens, at + k).span[2])).value
  IN  CASE name \in DOMAIN NoOperandOps ->
             end_of_line(tokens, Stmt(name, "", "", 0, FALSE), at + 1)
        [] name \in DOMAIN LabelOps ->
             IF id_error(tokens, at + 1) # "" THEN StmtErr(id_error(tokens, at + 1))
             ELSE end_of_line(tokens, Stmt(name, word(1), "", 0, FALSE), at + 2)
        [] name \in {"set", "dbg"} ->
             IF reg_error(src, tokens, at + 1) # ""
             THEN StmtErr(reg_error(src, tokens, at + 1))
             ELSE IF comma_error(tokens, at + 2) # ""
             THEN StmtErr(comma_error(tokens, at + 2))
             ELSE IF int_error(src, tokens, at + 3) # ""
             THEN StmtErr(int_error(src, tokens, at + 3))
             ELSE end_of_line(tokens, Stmt(name, word(1), "", int(3), FALSE), at + 4)
        [] name \in DOMAIN OneRegOps ->
             IF reg_error(src, tokens, at + 1) # ""
             THEN StmtErr(reg_error(src, tokens, at + 1))
             ELSE end_of_line(tokens, Stmt(name, word(1), "", 0, FALSE), at + 2)
        [] name \in DOMAIN TwoRegOps ->
             IF reg_error(src, tokens, at + 1) # ""
             THEN StmtErr(reg_error(src, tokens, at + 1))
             ELSE IF comma_error(tokens, at + 2) # ""
             THEN StmtErr(comma_error(tokens, at + 2))
             ELSE IF reg_error(src, tokens, at + 3) # ""
             THEN StmtErr(reg_error(src, tokens, at + 3))
             ELSE end_of_line(tokens, Stmt(name, word(1), word(3), 0, FALSE), at + 4)
        [] OTHER ->
             IF tk(tokens, at + 1).type = "Colon"
             THEN end_of_line(tokens, Stmt(name, "", "", 0, TRUE), at + 2)
             ELSE StmtErr("Found unexpected symbol")

RECURSIVE parse_tokens_from(_, _, _, _, _)
\* the loop of Parser::parse over the tokens: the lines read and their
\* instructions, or the first error
parse_tokens_from(src, tokens, at, stmts, acc) ==
  LET type == tk(tokens, at).type
  IN  CASE type = "Eof" -> [ok |-> TRUE, stmts |-> stmts, insts |-> acc, err |-> ""]
        [] type = "NewLine" -> parse_tokens_from(src, tokens, at + 1, stmts, acc)
        [] type = "Id" ->
             LET r == read_statement(src, tokens, at)
             IN  IF ~r.ok THEN [ok |-> FALSE, stmts |-> stmts, insts |-> << >>, err |-> r.err]
                 ELSE parse_tokens_from(src, tokens, r.pos, Append(stmts, r.st),
                                        Append(acc, parse_instruction(r.st).inst))
        [] OTHER -> [ok |-> FALSE, stmts |-> stmts, insts |-> << >>,
                     err |-> "Unexpected token"]

\* Parser::new(source, tokens).parse()
parse_tokens(src, tokens) == parse_tokens_from(src, tokens, 0, << >>, << >>)

(***************************************************************************)
(* assembler.rs, Compiler: symbol_table, buffer, pos.                      *)
(***************************************************************************)
\* enum PrecompiledInst
JumpPlaceHolder(label, at) ==
  [kind |-> "JumpPlaceHolder", label |-> label, pos |-> at, bytes |-> << >>]
CallPlaceHolder(label) ==
  [kind |-> "CallPlaceHolder", label |-> label, pos |-> 0, bytes |-> << >>]
Compiled(bytes) ==
  [kind |-> "Compiled", label |-> "", pos |-> 0, bytes |-> bytes]

\* Compiler::new
NewCompiler == [symbol_table |-> << >>, buffer |-> << >>, pos |-> 0]

\* variant: a key already in the table keeps its value
InsertIfAbsent(table, key, value) ==
  IF key \in DOMAIN table THEN table
  ELSE [k \in DOMAIN table \cup {key} |-> IF k = key THEN value ELSE table[k]]

\* HashMap::insert
Insert(table, key, value) ==
  [k \in DOMAIN table \cup {key} |-> IF k = key THEN value ELSE table[k]]

\* variant: the one-byte entry does not advance the position
inst_1_same_pos(c, i) ==
  [c EXCEPT !.buffer = Append(@, Compiled(<< i >>))]

inst_1(c, i) ==
  [c EXCEPT !.buffer = Append(@, Compiled(<< i >>)), !.pos = @ + 1]
inst_2(c, i, a) ==
  [c EXCEPT !.buffer = Append(@, Compiled(<< i, a >>)), !.pos = @ + 2]
inst_3(c, i, a, b) ==
  [c EXCEPT !.buffer = Append(@, Compiled(<< i, a, b >>)), !.pos = @ + 3]
inst_4(c, i, a, b, d) ==
  [c EXCEPT !.buffer = Append(@, Compiled(<< i, a, b, d >>)), !.pos = @ + 4]

\* the opcode of the ParsedInst variants that precompile encodes at once
OpcodeOf ==
  [Nop |-> Nop, Exit |-> Exit, Then |-> Then, Otherwise |-> Otherwise,
   SetByte |-> SetByte, SetShort |-> SetShort, Push |-> Push, Pop |-> Pop,
   Add |-> Add, Sub |-> Sub, Mul |-> Mul, Div |-> Div, Mod |-> Mod, Neg |-> Neg,
   GreaterThan |-> GreaterThan, LessThan |-> LessThan, GreaterEqual |-> GreaterEqual,
   LessEqual |-> LessEqual, Equal |-> Equal, NotEqual |-> NotEqual,
   Return |-> Return, Mov |-> Mov, Debug |-> Debug]

\* one arm of the match in Compiler::precompile
precompile_inst(c, inst) ==
  CASE inst.op = "Label" ->
         [c EXCEPT !.symbol_table = Insert(@, inst.label, c.pos)]
    [] inst.op = "Jump" ->
         [c EXCEPT !.buffer = Append(@, JumpPlaceHolder(inst.label, c.pos)), !.pos = @ + 2]
    [] inst.op = "Call" ->
         [c EXCEPT !.buffer = Append(@, CallPlaceHolder(inst.label)), !.pos = @ + 3]
    [] inst.op \in {"Nop", "Exit", "Then", "Otherwise", "Return"} ->
         inst_1(c, OpcodeOf[inst.op])
    [] inst.op \in {"Push", "Pop", "Neg"} ->
         inst_2(c, OpcodeOf[inst.op], AsU8(inst.a))
    [] inst.op = "SetShort" ->
         inst_4(c, SetShort, AsU8(inst.a), AsU8(Shr8(inst.b)), AsU8(inst.b))
    [] OTHER ->
         inst_3(c, OpcodeOf[inst.op], AsU8(inst.a), AsU8(inst.b))

RECURSIVE precompile_from(_, _, _)
precompile_from(c, list, k) ==
  IF k > Len(list) THEN c
  ELSE precompile_from(precompile_inst(c, list[k]), list, k + 1)

\* Compiler::precompile: pass 1 over the list, then the implicit Exit
precompile(c, list) == inst_1(precompile_from(c, list, 1), Exit)

CompileOk(asm) == [ok |-> TRUE, asm |-> asm, err |-> "", label |-> ""]
\* variant: the error message without the label
CompileErrUnnamed(msg, label) == [ok |-> FALSE, asm |-> << >>, err |-> msg, label |-> ""]
CompileErr(msg, label) == [ok |-> FALSE, asm |-> << >>, err |-> msg, label |-> label]

\* the bytes pass 2 emits for a resolved jump placeholder
JumpBytes(target, at) ==
  LET diff == target - at
  IN  << IF diff > 0 THEN JumpFw ELSE JumpBw, AsU8(diff) >>

\* the bytes pass 2 emits for a resolved call placeholder
CallBytes(target) == << Call, AsU8(Shr8(target)), AsU8(target) >>

\* one turn of the loop over self.buffer in Compiler::compile: the bytes the
\* entry adds to asm, or the error that ends the loop
resolve_entry(c, e) ==
  CASE e.kind = "JumpPlaceHolder" ->
         IF e.label \notin DOMAIN c.symbol_table
         THEN CompileErr("Jump to invalid label: ", e.label)
         ELSE CompileOk(JumpBytes(c.symbol_table[e.label], e.pos))
    [] e.kind = "CallPlaceHolder" ->
         IF e.label \notin DOMAIN c.symbol_table
         THEN CompileErr("Call to invalid label: ", e.label)
         ELSE CompileOk(CallBytes(c.symbol_table[e.label]))
    [] OTHER -> CompileOk(e.bytes)

RECURSIVE resolve_from(_, _, _)
\* the loop over the entries lo..hi of self.buffer, taken in two halves: the
\* bytes pushed to asm, in order, or the first error
resolve_from(c, lo, hi) ==
  IF lo > hi THEN CompileOk(<< >>)
  ELSE IF lo = hi THEN resolve_entry(c, c.buffer[lo])
  ELSE LET mid == (lo + hi) \div 2
           left == resolve_from(c, lo, mid)
           right == resolve_from(c, mid + 1, hi)
       IN  IF ~left.ok THEN left
           ELSE IF ~right.ok THEN right
           ELSE CompileOk(left.asm \o right.asm)

\* Compiler::compile: the compiler after the call and the returned value
compile(c, list) ==
  LET after == precompile(c, list)
  IN  [compiler |-> after, result |-> resolve_from(after, 1, Len(after.buffer))]

(***************************************************************************)
(* State.                                                                  *)
(*   text, tokens                the source bytes and their tokens         *)
(*   source                      the lines handed to the parser            *)
(*   insts                       Parser::parse's list                      *)
(*   symbol_table, buffer, pos   the fields of Compiler                    *)
(*   asm, error                  the value returned by parse / compile     *)
(*   second                      the value returned by a second compile    *)
(*   registers, ram, pc, skip_flag   the fields of VM                      *)
(*   out                         the characters printed by Debug           *)
(*   phase                       where the host is in the pipeline         *)
(*   trace                       history: for every instruction executed   *)
(*                               by VM::run its address, the arm taken and *)
(*                               the registers before it                   *)
(***************************************************************************)
VARIABLES text, tokens, source, insts, symbol_table, buffer, pos, asm, error, second,
          registers, ram, pc, skip_flag, out, phase, trace

asm_vars == << text, tokens, source, insts, symbol_table, buffer, pos, asm, error, second >>
vm_vars == << registers, ram, pc, skip_flag, out >>
vars == << text, tokens, source, insts, symbol_table, buffer, pos, asm, error, second,
           registers, ram, pc, skip_flag, out, phase, trace >>

NoError == [stage |-> "none", msg |-> "", label |-> ""]

(***************************************************************************)
(* vm.rs, VM::run: one action per arm of the match.                        *)
(***************************************************************************)
\* the state an arm leaves behind, and the history entry of the instruction
Leave(regs, mem, p, flag, o, ph, op) ==
  /\ registers' = regs
  /\ ram' = mem
  /\ pc' = p
  /\ skip_flag' = flag
  /\ out' = o
  /\ phase' = ph
  /\ trace' = Append(trace, [pc |-> pc, op |-> op, registers |-> registers])
  /\ UNCHANGED asm_vars

\* the arm completes and the loop goes on
Continue(regs, mem, p, op) == Leave(regs, mem, p, skip_flag, out, "running", op)
\* a panic (index out of bounds, arithmetic overflow) ends the run
Panic(regs, mem, p, op) == Leave(regs, mem, p, skip_flag, out, "fault", op)

InRam(i) == i >= 0 /\ i < RAM_LEN
InRegs(r) == r >= 0 /\ r < NUM_REGISTERS

\* `let inst = self.ram[self.pc]; self.pc += 1; transmute::<u8, Inst>(inst)`:
\* a byte 0..25 selects its arm; transmuting any other byte is undefined
\* behaviour, after which any arm may run (or the run may die, ExecInvalid)
Decodes(op) ==
  /\ phase = "running"
  /\ Len(trace) < MaxSteps
  /\ InRam(pc)
  /\ (ram[pc] = op \/ ram[pc] > Debug)

\* debug builds check arithmetic overflow and panic, release builds wrap
OverflowChecks(overflows) == IF overflows THEN BOOLEAN ELSE {FALSE}

\* self.ram[self.pc] out of bounds
FetchFault ==
  /\ phase = "running"
  /\ Len(trace) < MaxSteps
  /\ ~InRam(pc)
  /\ Leave(registers, ram, pc, skip_flag, out, "fault", 0 - 1)

\* a byte that is no opcode: the run may end here
ExecInvalid ==
  /\ phase = "running"
  /\ Len(trace) < MaxSteps
  /\ InRam(pc)
  /\ ram[pc] > Debug
  /\ Panic(registers, ram, pc + 1, ram[pc])

ExecNop ==
  /\ Decodes(Nop)
  /\ Continue(registers, ram, pc + 1, Nop)

ExecExit ==
  /\ Decodes(Exit)
  /\ Leave(registers, ram, pc + 1, skip_flag, out, "exited", Exit)

\* the program counter after Inst::JumpFw fetched at p - 1
JumpFwTarget(p, operand) == p + operand + 1

ExecJumpFw ==
  /\ Decodes(JumpFw)
  /\ LET p == pc + 1
     IN  IF ~InRam(p) THEN Panic(registers, ram, p, JumpFw)
         ELSE Continue(registers, ram, JumpFwTarget(p, ram[p]), JumpFw)

\* the program counter after Inst::JumpBw fetched at p - 1
JumpBwTarget(p, operand) == AsU16(p + AsI8(operand) - 1)

ExecJumpBw ==
  /\ Decodes(JumpBw)
  /\ LET p == pc + 1
     IN  IF ~InRam(p) THEN Panic(registers, ram, p, JumpBw)
         ELSE Continue(registers, ram, JumpBwTarget(p, ram[p]), JumpBw)

\* variant: both markers skip when the flag is false
SkipsWhenFalse(op, flag) == ~flag

\* Inst::Then skips when the flag is false, Inst::Otherwise when it is true
Skips(op, flag) == IF op = Then THEN ~flag ELSE flag

\* variant: the marker consumes the flag
MarkerConsuming(op) ==
  LET p == pc + 1
  IN  IF ~Skips(op, skip_flag) THEN Leave(registers, ram, p, FALSE, out, "running", op)
      ELSE IF ~InRam(p) THEN Panic(registers, ram, p, op)
      ELSE IF ram[p] > Debug THEN Panic(registers, ram, p, op)
      ELSE Leave(registers, ram, p + INSTRUCTION_LEN(ram[p]), FALSE, out, "running", op)

\* the body shared by the Then and Otherwise arms
Marker(op) ==
  LET p == pc + 1
  IN  IF ~Skips(op, skip_flag) THEN Continue(registers, ram, p, op)
      ELSE IF ~InRam(p) THEN Panic(registers, ram, p, op)
      ELSE IF ram[p] > Debug THEN Panic(registers, ram, p, op)
      ELSE Continue(registers, ram, p + INSTRUCTION_LEN(ram[p]), op)

ExecThen ==
  /\ Decodes(Then)
  /\ Marker(Then)

ExecOtherwise ==
  /\ Decodes(Otherwise)
  /\ Marker(Otherwise)

\* variant: the write without the test for register 0
WriteRegAlways(regs, reg, value) == [regs EXCEPT ![reg] = value]

\* registers after `if reg != 0 { self.registers[reg] = value }`
WriteReg(regs, reg, value) == IF reg # 0 THEN [regs EXCEPT ![reg] = value] ELSE regs

ExecSetByte ==
  /\ Decodes(SetByte)
  /\ LET p == pc + 1
     IN  IF ~InRam(p) \/ ~InRam(p + 1) THEN Panic(registers, ram, p, SetByte)
         ELSE LET reg == ram[p]
                  byte == ram[p + 1]
              IN  IF reg # 0 /\ ~InRegs(reg) THEN Panic(registers, ram, p, SetByte)
                  ELSE Continue(WriteReg(registers, reg, byte), ram, p + 2, SetByte)

ExecSetShort ==
  /\ Decodes(SetShort)
  /\ LET p == pc + 1
     IN  IF ~InRam(p) \/ ~InRam(p + 2) THEN Panic(registers, ram, p, SetShort)
         ELSE LET reg == ram[p]
                  low_bytes == ram[p + 2]
                  high_bytes == ram[p + 1]
              IN  IF reg # 0 /\ ~InRegs(reg) THEN Panic(registers, ram, p, SetShort)
                  ELSE Continue(WriteReg(registers, reg, Shl8Or(high_bytes, low_bytes)),
                                ram, p + 3, SetShort)

\* `self.ram[sp + 1] = value as u8; self.ram[sp] = (value >> 8) as u8`
\* of Push and Call: the memory afterwards, or the memory at the panic
StoreShort(mem, sp, value, checks) ==
  LET low_at == AsU16(sp + 1)
      low_stored == [mem EXCEPT ![low_at] = AsU8(value)]
  IN  IF OverflowsU16(sp + 1) /\ checks THEN [fault |-> TRUE, ram |-> mem]
      ELSE IF ~InRam(low_at) THEN [fault |-> TRUE, ram |-> mem]
      ELSE IF ~InRam(sp) THEN [fault |-> TRUE, ram |-> low_stored]
      ELSE [fault |-> FALSE, ram |-> [low_stored EXCEPT ![sp] = AsU8(Shr8(value))]]

\* `self.registers[reg] = self.ram[sp + 1] as u16;
\*  self.registers[reg] |= (self.ram[sp] as u16) << 8` of Pop and Return:
\* the registers afterwards, or the registers at the panic
LoadShort(regs, reg, mem, sp, checks) ==
  LET low_at == AsU16(sp + 1)
      low_loaded == [regs EXCEPT ![reg] = mem[low_at]]
  IN  IF OverflowsU16(sp + 1) /\ checks THEN [fault |-> TRUE, registers |-> regs]
      ELSE IF ~InRam(low_at) \/ ~InRegs(reg) THEN [fault |-> TRUE, registers |-> regs]
      ELSE IF ~InRam(sp) THEN [fault |-> TRUE, registers |-> low_loaded]
      ELSE [fault |-> FALSE,
            registers |-> [low_loaded EXCEPT ![reg] = Shl8Or(mem[sp], low_loaded[reg])]]

\* where Push and Call store: `let sp = self.registers[SP_REGISTER]` is read
\* before the decrement
PushSlot(regs) == regs[SP_REGISTER]

\* variant: the slot is read before the increment
PopSlotBefore(regs) == regs[SP_REGISTER]

\* where Pop and Return load from: sp is read after the increment
PopSlot(regs) == AsU16(regs[SP_REGISTER] + 2)

ExecPush ==
  /\ Decodes(Push)
  /\ LET p == pc + 1
         sp == PushSlot(registers)
         decremented == [registers EXCEPT ![SP_REGISTER] = AsU16(sp - 2)]
     IN  \E checks \in OverflowChecks(OverflowsU16(sp - 2) \/ OverflowsU16(sp + 1)) :
           IF OverflowsU16(sp - 2) /\ checks THEN Panic(registers, ram, p, Push)
           ELSE IF ~InRam(p) THEN Panic(decremented, ram, p, Push)
           ELSE IF ~InRegs(ram[p]) THEN Panic(decremented, ram, p, Push)
           ELSE LET stored == StoreShort(ram, sp, decremented[ram[p]], checks)
                IN  IF stored.fault THEN Panic(decremented, stored.ram, p, Push)
                    ELSE Continue(decremented, stored.ram, p + 1, Push)

ExecPop ==
  /\ Decodes(Pop)
  /\ LET p == pc + 1
         old == registers[SP_REGISTER]
         sp == PopSlot(registers)
         incremented == [registers EXCEPT ![SP_REGISTER] = sp]
     IN  \E checks \in OverflowChecks(OverflowsU16(old + 2) \/ OverflowsU16(sp + 1)) :
           IF OverflowsU16(old + 2) /\ checks THEN Panic(registers, ram, p, Pop)
           ELSE IF ~InRam(p) THEN Panic(incremented, ram, p, Pop)
           ELSE IF ram[p] = 0 THEN Continue(incremented, ram, p + 1, Pop)
           ELSE LET loaded == LoadShort(incremented, ram[p], ram, sp, checks)
                IN  IF loaded.fault THEN Panic(loaded.registers, ram, p, Pop)
                    ELSE Continue(loaded.registers, ram, p + 1, Pop)

\* variant: x.saturating_add(y) as u16
AddSaturating(x, y) ==
  LET v == AsI16(x) + AsI16(y)
  IN  AsU16(IF v > 32767 THEN 32767 ELSE IF v < 0 - 32768 THEN 0 - 32768 ELSE v)

\* x.wrapping_add(y) as u16 on the registers read as i16
AddResult(x, y) == AsU16(AsI16(x) + AsI16(y))
\* x.wrapping_sub(y) as u16
SubResult(x, y) == AsU16(AsI16(x) - AsI16(y))
\* ((x as i16) * (y as i16)) as u16 when the product wraps
MulResult(x, y) == AsU16(AsI16(x) * AsI16(y))
\* ((x as i16) / (y as i16)) as u16
DivResult(x, y) == AsU16(TruncDiv(AsI16(x), AsI16(y)))
\* ((x as i16) % (y as i16)) as u16
ModResult(x, y) == AsU16(TruncRem(AsI16(x), AsI16(y)))
\* (-(x as i16)) as u16 when the negation wraps
NegResult(x) == AsU16(0 - AsI16(x))

\* the operand bytes a and b of a three-byte instruction cannot be read
OperandFault(p) == ~InRam(p) \/ ~InRam(p + 1)

ExecAdd ==
  /\ Decodes(Add)
  /\ LET p == pc + 1
     IN  IF OperandFault(p) THEN Panic(registers, ram, p, Add)
         ELSE LET a == ram[p]
                  b == ram[p + 1]
              IN  IF a = 0 THEN Continue(registers, ram, p + 2, Add)
                  ELSE IF ~InRegs(a) \/ ~InRegs(b) THEN Panic(registers, ram, p, Add)
                  ELSE Continue([registers EXCEPT ![a] = AddResult(registers[a], registers[b])],
                                ram, p + 2, Add)

ExecSub ==
  /\ Decodes(Sub)
  /\ LET p == pc + 1
     IN  IF OperandFault(p) THEN Panic(registers, ram, p, Sub)
         ELSE LET a == ram[p]
                  b == ram[p + 1]
              IN  IF a = 0 THEN Continue(registers, ram, p + 2, Sub)
                  ELSE IF ~InRegs(a) \/ ~InRegs(b) THEN Panic(registers, ram, p, Sub)
                  ELSE Continue([registers EXCEPT ![a] = SubResult(registers[a], registers[b])],
                                ram, p + 2, Sub)

ExecMul ==
  /\ Decodes(Mul)
  /\ LET p == pc + 1
     IN  IF OperandFault(p) THEN Panic(registers, ram, p, Mul)
         ELSE LET a == ram[p]
                  b == ram[p + 1]
              IN  IF a = 0 THEN Continue(registers, ram, p + 2, Mul)
                  ELSE IF ~InRegs(a) \/ ~InRegs(b) THEN Panic(registers, ram, p, Mul)
                  ELSE \E checks \in OverflowChecks(
                            OverflowsI16(AsI16(registers[a]) * AsI16(registers[b]))) :
                         IF checks THEN Panic(registers, ram, p, Mul)
                         ELSE Continue(
                                [registers EXCEPT ![a] = MulResult(registers[a], registers[b])],
                                ram, p + 2, Mul)

\* variant: the guard without the test of the divisor
DividesUnguarded(regs, a, b) == a # 0

\* the guard of the Div and Mod arms: `self.registers[b] != 0 && a != 0`
Divides(regs, a, b) == regs[b] # 0 /\ a # 0

\* a zero divisor, i16::MIN / -1 and i16::MIN % -1 panic in every build
DivPanics(x, y) == y = 0 \/ (AsI16(x) = 0 - 32768 /\ AsI16(y) = 0 - 1)

ExecDiv ==
  /\ Decodes(Div)
  /\ LET p == pc + 1
     IN  IF OperandFault(p) THEN Panic(registers, ram, p, Div)
         ELSE LET a == ram[p]
                  b == ram[p + 1]
              IN  IF ~InRegs(b) THEN Panic(registers, ram, p, Div)
                  ELSE IF ~Divides(registers, a, b) THEN Continue(registers, ram, p + 2, Div)
                  ELSE IF ~InRegs(a) THEN Panic(registers, ram, p, Div)
                  ELSE IF DivPanics(registers[a], registers[b])
                       THEN Panic(registers, ram, p, Div)
                  ELSE Continue([registers EXCEPT ![a] = DivResult(registers[a], registers[b])],
                                ram, p + 2, Div)

ExecMod ==
  /\ Decodes(Mod)
  /\ LET p == pc + 1
     IN  IF OperandFault(p) THEN Panic(registers, ram, p, Mod)
         ELSE LET a == ram[p]
                  b == ram[p + 1]
              IN  IF ~InRegs(b) THEN Panic(registers, ram, p, Mod)
                  ELSE IF ~Divides(registers, a, b) THEN Continue(registers, ram, p + 2, Mod)
                  ELSE IF ~InRegs(a) THEN Panic(registers, ram, p, Mod)
                  ELSE IF DivPanics(registers[a], registers[b])
                       THEN Panic(registers, ram, p, Mod)
                  ELSE Continue([registers EXCEPT ![a] = ModResult(registers[a], registers[b])],
                                ram, p + 2, Mod)

ExecNeg ==
  /\ Decodes(Neg)
  /\ LET p == pc + 1
     IN  IF ~InRam(p) THEN Panic(registers, ram, p, Neg)
         ELSE LET reg == ram[p]
              IN  IF reg = 0 THEN Continue(registers, ram, p + 1, Neg)
                  ELSE IF ~InRegs(reg) THEN Panic(registers, ram, p, Neg)
                  ELSE \E checks \in OverflowChecks(OverflowsI16(0 - AsI16(registers[reg]))) :
                         IF checks THEN Panic(registers, ram, p, Neg)
                         ELSE Continue([registers EXCEPT ![reg] = NegResult(registers[reg])],
                                       ram, p + 1, Neg)

\* variant: the ordering comparisons on the unsigned contents
CompareUnsigned(op, x, y) ==
  CASE op = GreaterThan -> x > y
    [] op = LessThan -> x < y
    [] op = GreaterEqual -> x >= y
    [] op = LessEqual -> x <= y
    [] op = Equal -> x = y
    [] op = NotEqual -> x # y

\* the flag each comparison arm computes from the two register contents
Compare(op, x, y) ==
  CASE op = GreaterThan -> AsI16(x) > AsI16(y)
    [] op = LessThan -> AsI16(x) < AsI16(y)
    [] op = GreaterEqual -> AsI16(x) >= AsI16(y)
    [] op = LessEqual -> AsI16(x) <= AsI16(y)
    [] op = Equal -> x = y
    [] op = NotEqual -> x # y

\* the body shared by the six comparison arms
Comparison(op) ==
  LET p == pc + 1
  IN  IF OperandFault(p) THEN Panic(registers, ram, p, op)
      ELSE LET a == ram[p]
               b == ram[p + 1]
           IN  IF ~InRegs(a) \/ ~InRegs(b) THEN Panic(registers, ram, p, op)
               ELSE Leave(registers, ram, p + 2,
                          Compare(op, registers[a], registers[b]), out, "running", op)

ExecGreaterThan ==
  /\ Decodes(GreaterThan)
  /\ Comparison(GreaterThan)

ExecLessThan ==
  /\ Decodes(LessThan)
  /\ Comparison(LessThan)

ExecGreaterEqual ==
  /\ Decodes(GreaterEqual)
  /\ Comparison(GreaterEqual)

ExecLessEqual ==
  /\ Decodes(LessEqual)
  /\ Comparison(LessEqual)

ExecEqual ==
  /\ Decodes(Equal)
  /\ Comparison(Equal)

ExecNotEqual ==
  /\ Decodes(NotEqual)
  /\ Comparison(NotEqual)

ExecReturn ==
  /\ Decodes(Return)
  /\ LET p == pc + 1
         old == registers[SP_REGISTER]
         sp == PopSlot(registers)
         incremented == [registers EXCEPT ![SP_REGISTER] = sp]
     IN  \E checks \in OverflowChecks(OverflowsU16(old + 2) \/ OverflowsU16(sp + 1)) :
           IF OverflowsU16(old + 2) /\ checks THEN Panic(registers, ram, p, Return)
           ELSE LET loaded == LoadShort(incremented, AT_REGISTER, ram, sp, checks)
                IN  IF loaded.fault THEN Panic(loaded.registers, ram, p, Return)
                    ELSE Continue(loaded.registers, ram,
                                  loaded.registers[AT_REGISTER], Return)

\* the return address Call saves: the program counter after its two operand bytes
ReturnAddress(p) == p + 2

\* variant: the return address is also left in the scratch register
ExecCallLinking ==
  /\ Decodes(Call)
  /\ LET p == pc + 1
         sp == PushSlot(registers)
         ret == ReturnAddress(p)
         decremented == [registers EXCEPT ![SP_REGISTER] = AsU16(sp - 2),
                                          ![AT_REGISTER] = ret]
     IN  \E checks \in OverflowChecks(OverflowsU16(sp - 2) \/ OverflowsU16(sp + 1)) :
           IF OperandFault(p) THEN Panic(registers, ram, p, Call)
           ELSE LET low_bytes == ram[p + 1]
                    high_bytes == ram[p]
                    stored == StoreShort(ram, sp, ret, checks)
                IN  IF OverflowsU16(sp - 2) /\ checks THEN Panic(registers, ram, ret, Call)
                    ELSE IF stored.fault THEN Panic(decremented, stored.ram, ret, Call)
                    ELSE Continue(decremented, stored.ram,
                                  Shl8Or(high_bytes, low_bytes), Call)

ExecCall ==
  /\ Decodes(Call)
  /\ LET p == pc + 1
         sp == PushSlot(registers)
         decremented == [registers EXCEPT ![SP_REGISTER] = AsU16(sp - 2)]
     IN  \E checks \in OverflowChecks(OverflowsU16(sp - 2) \/ OverflowsU16(sp + 1)) :
           IF OperandFault(p) THEN Panic(registers, ram, p, Call)
           ELSE LET low_bytes == ram[p + 1]
                    high_bytes == ram[p]
                    ret == ReturnAddress(p)
                    stored == StoreShort(ram, sp, ret, checks)
                IN  IF OverflowsU16(sp - 2) /\ checks THEN Panic(registers, ram, ret, Call)
                    ELSE IF stored.fault THEN Panic(decremented, stored.ram, ret, Call)
                    ELSE Continue(decremented, stored.ram,
                                  Shl8Or(high_bytes, low_bytes), Call)

ExecMov ==
  /\ Decodes(Mov)
  /\ LET p == pc + 1
     IN  IF OperandFault(p) THEN Panic(registers, ram, p, Mov)
         ELSE LET a == ram[p]
                  b == ram[p + 1]
              IN  IF a = 0 THEN Continue(registers, ram, p + 2, Mov)
                  ELSE IF ~InRegs(a) \/ ~InRegs(b) THEN Panic(registers, ram, p, Mov)
                  ELSE Continue([registers EXCEPT ![a] = registers[b]], ram, p + 2, Mov)

RECURSIVE walk(_, _, _)
\* the loop of VM::disassembly from position at: the first position at or
\* behind limit that `pos += len` reaches, or -1 when INSTRUCTION_LEN[byte]
\* is indexed out of bounds on the way (the walk is split in halves to keep
\* the evaluation shallow)
walk(mem, at, limit) ==
  IF at < 0 \/ at >= limit THEN at
  ELSE IF limit - at > 16 THEN walk(mem, walk(mem, at, at + ((limit - at) \div 2)), limit)
  ELSE IF mem[at] > Debug THEN 0 - 1
  ELSE walk(mem, at + INSTRUCTION_LEN(mem[at]), limit)

\* VM::disassembly: TRUE when the walk reaches the end of the memory. On a
\* byte above 25 the walk transmutes the byte and indexes INSTRUCTION_LEN
\* behind its end: the panic of the bounds check, or, the transmute being
\* undefined behaviour, a dump that goes on
disassembly(mem) == walk(mem, 0, RAM_LEN) >= RAM_LEN

\* the text of VM::print, kept as one token
Dump == << "{state}" >>

ExecDebug ==
  /\ Decodes(Debug)
  /\ LET p == pc + 1
     IN  IF OperandFault(p) THEN Panic(registers, ram, p, Debug)
         ELSE LET a == ram[p]
                  b == ram[p + 1]
              IN  IF RecognizedMode(b)
                  THEN IF ~InRegs(a) THEN Panic(registers, ram, p, Debug)
                       ELSE Leave(registers, ram, p + 2, skip_flag,
                                  out \o FormatMode(b, registers[a]), "running", Debug)
                  ELSE IF ~disassembly(ram)
                       THEN \/ Leave(registers, ram, p, skip_flag, out \o Dump, "fault", Debug)
                            \/ Leave(registers, ram, p + 2, skip_flag, out \o Dump,
                                     "running", Debug)
                       ELSE Leave(registers, ram, p + 2, skip_flag, out \o Dump,
                                  "running", Debug)

(***************************************************************************)
(* The host: parse, compile, load the image byte by byte, reset, run.      *)
(***************************************************************************)
\* read_all_tokens on a source text
Lex ==
  /\ phase = "text"
  /\ tokens' = read_all_tokens(text)
  /\ phase' = "lexed"
  /\ UNCHANGED << text, source, insts, symbol_table, buffer, pos, asm, error, second, trace >>
  /\ UNCHANGED vm_vars

\* Parser::parse on the tokens of a text; source keeps the lines it read
ParseTokens ==
  /\ phase = "lexed"
  /\ LET r == parse_tokens(text, tokens)
     IN  /\ source' = r.stmts
         /\ insts' = r.insts
         /\ error' = IF r.ok THEN NoError
                     ELSE [stage |-> "parse", msg |-> r.err, label |-> ""]
         /\ phase' = IF r.ok THEN "parsed" ELSE "parse_error"
  /\ UNCHANGED << text, tokens, symbol_table, buffer, pos, asm, second, trace >>
  /\ UNCHANGED vm_vars

\* Parser::parse on the source lines
Parse ==
  /\ phase = "source"
  /\ LET r == parse(source)
     IN  /\ insts' = r.insts
         /\ error' = IF r.ok THEN NoError
                     ELSE [stage |-> "parse", msg |-> r.err, label |-> ""]
         /\ phase' = IF r.ok THEN "parsed" ELSE "parse_error"
  /\ UNCHANGED << text, tokens, source, symbol_table, buffer, pos, asm, second, trace >>
  /\ UNCHANGED vm_vars

\* Compiler::compile on a Compiler made by Compiler::new
Compile ==
  /\ phase = "parsed"
  /\ LET r == compile([symbol_table |-> symbol_table, buffer |-> buffer, pos |-> pos], insts)
     IN  /\ symbol_table' = r.compiler.symbol_table
         /\ buffer' = r.compiler.buffer
         /\ pos' = r.compiler.pos
         /\ asm' = r.result.asm
         /\ error' = IF r.result.ok THEN NoError
                     ELSE [stage |-> "compile", msg |-> r.result.err,
                           label |-> r.result.label]
         /\ phase' = IF r.result.ok THEN "assembled" ELSE "asm_error"
  /\ UNCHANGED << text, tokens, source, insts, second, trace >>
  /\ UNCHANGED vm_vars

\* Compiler::compile called once more with the same list on the same
\* Compiler, before the first image is loaded; the host keeps both results
CompileAgain ==
  /\ phase = "assembled"
  /\ buffer # << >>
  /\ pc = 0
  /\ LET r == compile([symbol_table |-> symbol_table, buffer |-> buffer, pos |-> pos], insts)
     IN  /\ symbol_table' = r.compiler.symbol_table
         /\ buffer' = r.compiler.buffer
         /\ pos' = r.compiler.pos
         /\ second' = r.result
  /\ phase' = "recompiled"
  /\ UNCHANGED << text, tokens, source, insts, asm, error, trace >>
  /\ UNCHANGED vm_vars

\* VM::set
set(i) ==
  /\ InRam(pc)
  /\ ram' = [ram EXCEPT ![pc] = i]
  /\ pc' = pc + 1

\* the loader hands the image to VM::set in order, starting at address 0
Load ==
  /\ phase = "assembled"
  /\ pc < Len(asm)
  /\ set(asm[pc + 1])
  /\ UNCHANGED << registers, skip_flag, out, phase, trace >>
  /\ UNCHANGED asm_vars

\* variant: the program counter is left where the loader stopped
reset_keeps_pc ==
  /\ registers' = [registers EXCEPT ![SP_REGISTER] = RAM_LEN - 2]
  /\ pc' = pc

\* VM::reset, after which the host calls VM::run
reset ==
  /\ registers' = [registers EXCEPT ![SP_REGISTER] = RAM_LEN - 2]
  /\ pc' = 0

Reset ==
  /\ phase = "assembled"
  /\ pc = Len(asm)
  /\ reset
  /\ phase' = "running"
  /\ UNCHANGED << ram, skip_flag, out, trace >>
  /\ UNCHANGED asm_vars

(***************************************************************************)
(* The programs the model is run on.                                       *)
(***************************************************************************)
Line(name) == Stmt(name, "", "", 0, FALSE)
LabelLine(label) == Stmt(label, "", "", 0, TRUE)
Ref(name, label) == Stmt(name, label, "", 0, FALSE)
OneReg(name, r) == Stmt(name, r, "", 0, FALSE)
TwoReg(name, r1, r2) == Stmt(name, r1, r2, 0, FALSE)
RegInt(name, r, int) == Stmt(name, r, "", int, FALSE)

Nops(k) == [i \in 1..k |-> Line("nop")]
\* k bytes of filler: four-byte loads, then nops
Filler(k) == [i \in 1..(k \div 4) |-> RegInt("set", "b", 300)] \o Nops(k % 4)

\* 16-bit register contents: zero, small values, both ends of the signed range
Vals == {0, 2, 7, 32767, 32768, 65529, 65535}
\* immediates of `set`, on both sides of the narrow/wide boundary
Immediates == {0, 1, 255, 256, 257, 4660, 32768, 65535}
\* values of the stack pointer at a push or a call
StackTops == {2, 8, 16, 600, 1022}
\* the register names the lexer can produce (identifiers of letters)
LetterNames ==
  {"zero", "z", "a", "b", "c", "d", "e", "f", "g", "h", "i", "j", "k", "l", "m", "at", "sp"}
\* debug modes: the ten recognized ones, others, and one that is truncated to a byte
Modes == {0, 1, 2, 3, 4, 10, 11, 12, 13, 14, 5, 9, 255, 256}
\* nops between a jump and its label
PadSizes == {1, 124, 125, 126, 127}

\* every list of at most MaxAsmLen lines over labels, references and fillers
AsmAlphabet ==
  { Line("nop"), RegInt("set", "a", 7680), Line("ret"),
    LabelLine("l"), Ref("jmp", "l"), Ref("jmp", "m"), Ref("call", "l") }
AsmPrograms == UNION { [1..n -> AsmAlphabet] : n \in 1..MaxAsmLen }

\* jumps over a long distance, forward and backward
PadPrograms ==
  { << Ref("jmp", "l") >> \o Filler(k) \o << LabelLine("l"), Line("nop"), Line("nop") >>
      : k \in PadSizes }
  \cup
  { << Ref("call", "j"), LabelLine("l") >> \o Filler(k + 1) \o << LabelLine("j"), Ref("jmp", "l") >>
      : k \in PadSizes }

\* a subroutine called with the stack pointer at s
Bodies ==
  { << >>, << Line("nop") >>,
    << OneReg("push", "a"), OneReg("pop", "b") >>,
    << OneReg("push", "a") >>, << OneReg("pop", "a") >>,
    << RegInt("set", "at", 9), OneReg("push", "at"), OneReg("pop", "z") >>,
    << Ref("call", "g"), Line("ret"), LabelLine("g"), OneReg("neg", "a") >> }
CallPrograms ==
  { << RegInt("set", "sp", s), RegInt("set", "a", 4660), Ref("call", "f"), Line("exit"),
       LabelLine("f") >> \o body \o << Line("ret") >>
      : s \in StackTops, body \in Bodies }
  \cup
  { << Ref("call", "f"), RegInt("dbg", "at", 0), Line("exit"), LabelLine("f"), Line("ret") >>,
    << RegInt("set", "a", 2000), OneReg("push", "a"), Line("ret") >> }

\* push and pop of one register
StackPrograms ==
  { << RegInt("set", "sp", s), RegInt("set", r, v), OneReg("push", r), OneReg("pop", r) >>
      : s \in StackTops, r \in {"z", "a", "at"}, v \in Vals }
  \cup
  { << RegInt("set", "sp", s), OneReg("push", "sp"), OneReg("pop", "sp") >> : s \in StackTops }
  \cup
  { << RegInt("set", "a", v), OneReg("push", "a"), OneReg("pop", r) >>
      : v \in Vals, r \in {"b", "z", "sp"} }

\* one instruction of every opcode behind a then or an else
Guarded ==
  { Line("nop"), Line("exit"), Ref("jmp", "fwd"), Ref("jmp", "back"), Line("then"),
    Line("else"), RegInt("set", "a", 5), RegInt("set", "a", 300), OneReg("push", "a"),
    OneReg("pop", "a"), OneReg("neg", "a"), Line("ret"), Ref("call", "fwd"),
    RegInt("dbg", "a", 0) }
  \cup { TwoReg(name, "a", "b") : name \in DOMAIN TwoRegOps }
ThenPrograms ==
  { << RegInt("set", "b", 3), LabelLine("back"), TwoReg(cmp, "z", "z"), Line(marker), g,
       RegInt("dbg", "a", 0), Line("exit"), LabelLine("fwd") >>
      : cmp \in {"eq", "neq"}, marker \in {"then", "else"}, g \in Guarded }

\* one two-register instruction on chosen register contents
RegPairs == { << "a", "b" >>, << "a", "a" >>, << "a", "z" >>, << "z", "a" >> }
ArithPrograms ==
  { << RegInt("set", "a", x), RegInt("set", "b", y), TwoReg(name, rr[1], rr[2]),
       RegInt("dbg", "a", 0) >>
      : x \in Vals, y \in Vals, name \in DOMAIN TwoRegOps, rr \in RegPairs }
  \cup
  { << RegInt("set", "a", x), OneReg("neg", r) >> : x \in Vals, r \in {"a", "z"} }

\* an immediate loaded into a register and printed
SetPrograms ==
  { << RegInt("set", r, v), RegInt("dbg", r, 0) >> : r \in LetterNames, v \in Immediates }

\* every debug mode
DebugPrograms ==
  { << RegInt("set", "a", v), RegInt("dbg", "a", mode) >> : v \in {0, 42, 4660}, mode \in Modes }
  \cup
  { << RegInt("set", "a", 300), OneReg("push", "a"), RegInt("dbg", "a", 99) >> }

\* lines the parser rejects
BadPrograms ==
  { << Line("foo") >>, << RegInt("set", "q", 1) >>, << Line("nop"), TwoReg("add", "a", "sq") >> }

\* a marker as the last line, a pop on the empty stack, a value in the scratch
\* register across a call, and the program of five lines
EdgePrograms ==
  { << Line(marker) >> : marker \in {"then", "else"} }
  \cup
  { << TwoReg("eq", "z", "z"), Line("else") >>, << OneReg("pop", "a") >>,
    << RegInt("set", "sp", 600), OneReg("pop", "a") >>,
    << RegInt("set", "at", 77), Ref("call", "f"), RegInt("dbg", "at", 0), Line("exit"),
       LabelLine("f"), Line("ret") >>,
    << RegInt("set", "a", 5), RegInt("set", "b", 3), TwoReg("add", "a", "b"),
       RegInt("dbg", "a", 0), Line("exit") >> }
\* a push and a call with the stack pointer inside the image
OverrunPrograms ==
  { << RegInt("set", "sp", s), RegInt("set", "a", v), OneReg("push", "a"), Line("nop"),
       Line("nop") >>
      : s \in {0, 1, 2, 6, 9}, v \in {0, 258} }
  \cup
  { << RegInt("set", "sp", s), Ref("call", "f"), Line("nop"), LabelLine("f"), Line("nop") >>
      : s \in {0, 1, 2, 6} }
\* a label declared twice, with references before, between and after
RedeclaredPrograms ==
  { << Ref(first, "l"), LabelLine("l"), Line("nop"), Ref("call", "l"), LabelLine("l"),
       Line("exit"), Ref(last, "l") >>
      : first \in {"jmp", "call"}, last \in {"jmp", "call"} }
  \cup
  { << LabelLine("l"), LabelLine("l"), Ref("jmp", "l") >>,
    << LabelLine("l"), Line("nop"), LabelLine("l"), LabelLine("k"), Ref("jmp", "k"),
       Ref("jmp", "q") >> }
\* every opcode that is no control transfer, in three straight programs
LengthPrograms ==
  { << Line("nop"), RegInt("set", "a", 5), RegInt("set", "b", 300), OneReg("push", "a"),
       OneReg("pop", "c"), TwoReg("add", "a", "b"), TwoReg("sub", "a", "b"),
       TwoReg("mul", "a", "b"), OneReg("neg", "a") >>,
    << RegInt("set", "a", 7), RegInt("set", "b", 2), TwoReg("div", "a", "b"),
       TwoReg("mod", "a", "b"), TwoReg("mov", "c", "a"), TwoReg("gt", "a", "b"),
       TwoReg("lt", "a", "b"), TwoReg("ge", "a", "b"), RegInt("dbg", "a", 0) >>,
    << RegInt("set", "a", 1), TwoReg("le", "a", "b"), TwoReg("eq", "a", "b"),
       TwoReg("neq", "a", "b"), Line("then"), Line("nop"), Line("else"), Line("nop") >> }
\* compare; then; I1; else; I2 with both outcomes of the comparison
FirstBranches ==
  { Line("nop"), Line("then"), Line("else"), RegInt("set", "a", 5), RegInt("set", "a", 300),
    OneReg("push", "a"), OneReg("pop", "a"), OneReg("neg", "a"), TwoReg("mov", "a", "sp"),
    TwoReg("div", "a", "sp"), RegInt("dbg", "a", 0) }
SecondBranches ==
  { Line("nop"), RegInt("set", "b", 300), OneReg("push", "b"), Line("else"), Line("exit") }
ConditionalPrograms ==
  { << TwoReg(cmp, "z", "z"), Line("then"), i1, Line("else"), i2 >>
      : cmp \in {"eq", "neq", "lt", "ge"}, i1 \in FirstBranches, i2 \in SecondBranches }

Programs ==
  AsmPrograms \cup PadPrograms \cup CallPrograms \cup StackPrograms \cup ThenPrograms
  \cup ArithPrograms \cup SetPrograms \cup DebugPrograms \cup BadPrograms
  \cup EdgePrograms \cup OverrunPrograms \cup RedeclaredPrograms \cup LengthPrograms
  \cup ConditionalPrograms

(***************************************************************************)
(* The source texts the model is run on.                                   *)
(***************************************************************************)
\* set a, 5 / set b, 3 / add a, b / dbg a, 0 / exit
FiveLines ==
  << "s", "e", "t", " ", "a", ",", " ", "5", "\n", "s", "e", "t", " ", "b", ",", " ",
     "3", "\n", "a", "d", "d", " ", "a", ",", " ", "b", "\n", "d", "b", "g", " ", "a",
     ",", " ", "0", "\n", "e", "x", "i", "t" >>

\* integer literals: decimal, with the prefix 0x, and 0x without a digit after it
LiteralTexts ==
  { << "s", "e", "t", " ", "a", ",", " ", "0", "x", "1", "0" >>,
    << "s", "e", "t", " ", "a", ",", " ", "1", "6" >>,
    << "s", "e", "t", " ", "a", ",", " ", "0", "x", "1", "F", "\n" >>,
    << "s", "e", "t", " ", "a", ",", " ", "0", "x" >>,
    << "s", "e", "t", " ", "a", ",", " ", "0", "x", "g" >>,
    << "d", "b", "g", " ", "a", ",", " ", "0", "x", "1", "\n" >>,
    << "s", "e", "t", " ", "a", ",", " ", "0", "1", "0" >> }

\* the numeric and the letter alias of the register slots 1..13
Letters == << "a", "b", "c", "d", "e", "f", "g", "h", "i", "j", "k", "l", "m" >>
NumericAlias(slot) == << "$" >> \o FormatRadix(slot - 1, 10, LowerDigits)
LetterAlias(slot) == << Letters[slot] >>
PushText(alias) == << "p", "u", "s", "h", " " >> \o alias
AliasTexts ==
  { PushText(NumericAlias(slot)) : slot \in 1..13 } \cup { PushText(LetterAlias(slot)) : slot \in 1..13 }

\* comments, empty lines, ignored bytes, and texts the parser rejects
LexTexts ==
  { << ";", " ", "c", "\n", "n", "o", "p", "\n", "\n", "l", ":", "\n", "j", "m", "p",
     " ", "l", " ", ";", " ", "x", "\n" >>,
    << "5" >>,
    << "," >>,
    << ":" >>,
    << "s", "e", "t", " ", "a", " ", "1" >>,
    << "s", "e", "t", " ", "q", ",", " ", "1" >>,
    << "s", "e", "t", " ", "a", ",", " ", "9", "9", "9", "9", "9", "9", "9", "9", "9",
     "9", "9" >>,
    << "s", "e", "t", " ", "a", ",", " ", "2", "1", "4", "7", "4", "8", "3", "6", "4",
     "8" >>,
    << "s", "e", "t", " ", "a", ",", " ", "2", "1", "4", "7", "4", "8", "3", "6", "4",
     "7" >>,
    << "s", "e", "t", " ", "a", ",", " ", "7", "0", "0", "0", "0" >>,
    << "n", "o", "p", " ", "n", "o", "p" >>,
    << "f", "o", "o" >>,
    << "a", "d", "d", " ", "a", ",", "b", "\n", "S", "U", "B", " ", "#", "%" >>,
    << "n", "e", "g" >>,
    << "c", "a", "l", "l", " ", "7" >>,
    << "m", "o", "v", " ", "a", ",", " ", "3" >>,
    << "s", "e", "t", " ", "a", ",", " ", "b" >> }

\* images handed to VM::set byte by byte without the assembler: an exit and
\* bytes that are not run, up to the size of the memory
RawImage(n) == [i \in 1..n |-> IF i = 1 THEN Exit ELSE (i % 25) + 1]
\* images with a byte that is no opcode: fetched first, behind a marker
\* that skips (the flag is false at the start), behind one that does not
BadOpcodeImages == { << 99 >>, << 26, Exit >>, << Then, 99 >>, << Otherwise, 255, Exit >> }
Images == { RawImage(n) : n \in {0, 1, 2, RAM_LEN - 1, RAM_LEN} } \cup BadOpcodeImages

Texts == {FiveLines, FiveLines \o << "\n" >>} \cup LiteralTexts \cup AliasTexts \cup LexTexts

(***************************************************************************)
(* The specification.                                                      *)
(***************************************************************************)
\* Compiler::new, VM::new and a source program, given as a text or as the
\* lines of tokens the lexer makes of one
Init ==
  /\ \/ text \in Texts /\ source = << >> /\ asm = << >> /\ phase = "text"
     \/ text = << >> /\ source \in Programs /\ asm = << >> /\ phase = "source"
     \/ text = << >> /\ source = << >> /\ asm \in Images /\ phase = "assembled"
  /\ tokens = << >>
  /\ second = CompileOk(<< >>)
  /\ insts = << >>
  /\ symbol_table = NewCompiler.symbol_table
  /\ buffer = NewCompiler.buffer
  /\ pos = NewCompiler.pos
  /\ error = NoError
  /\ registers = [r \in 0..(NUM_REGISTERS - 1) |-> 0]
  /\ ram = [i \in 0..(RAM_LEN - 1) |-> 0]
  /\ pc = 0
  /\ skip_flag = FALSE
  /\ out = << >>
  /\ trace = << >>

Next ==
  \/ Lex
  \/ ParseTokens
  \/ Parse
  \/ Compile
  \/ CompileAgain
  \/ Load
  \/ Reset
  \/ FetchFault
  \/ ExecInvalid
  \/ ExecNop
  \/ ExecExit
  \/ ExecJumpFw
  \/ ExecJumpBw
  \/ ExecThen
  \/ ExecOtherwise
  \/ ExecSetByte
  \/ ExecSetShort
  \/ ExecPush
  \/ ExecPop
  \/ ExecAdd
  \/ ExecSub
  \/ ExecMul
  \/ ExecDiv
  \/ ExecMod
  \/ ExecNeg
  \/ ExecGreaterThan
  \/ ExecLessThan
  \/ ExecGreaterEqual
  \/ ExecLessEqual
  \/ ExecEqual
  \/ ExecNotEqual
  \/ ExecReturn
  \/ ExecCall
  \/ ExecMov
  \/ ExecDebug

Spec == Init /\ [][Next]_vars

(***************************************************************************)
(* Vocabulary of the properties.                                           *)
(***************************************************************************)
\* the history entry of the instruction executed last
Last == trace[Len(trace)]

\* this step executes an instruction through the given arm and the run goes on
Executes(op) ==
  /\ phase = "running"
  /\ phase' = "running"
  /\ Len(trace') = Len(trace) + 1
  /\ trace'[Len(trace')].op = op

\* the image was produced and the bytes of the instruction at offset at, of
\* length n, are still in memory as the assembler emitted them
Intact(at, n) ==
  /\ at + n <= Len(asm)
  /\ \A i \in 0..(n - 1) : InRam(at + i) /\ ram[at + i] = asm[at + i + 1]

\* the jump placeholders of the assembled program
JumpEntries == { k \in 1..Len(buffer) : buffer[k].kind = "JumpPlaceHolder" }

\* C1: for every `jmp L` at byte offset p whose label resolves to t with
\* -128 <= t - p <= 127, executing the jump emitted for it sets the program
\* counter to t, for forward (t > p) and backward (t <= p) jumps alike.
C1_JumpLandsOnLabel ==
  [][ \A k \in JumpEntries :
        LET p == buffer[k].pos
            L == buffer[k].label
        IN  ( /\ L \in DOMAIN symbol_table
              /\ symbol_table[L] - p >= 0 - 128
              /\ symbol_table[L] - p <= 127
              /\ pc = p
              /\ Intact(p, 2)
              /\ (Executes(JumpFw) \/ Executes(JumpBw)) )
            => pc' = symbol_table[L] ]_vars

\* the backward half of C1, which the code satisfies
C1_BackwardJumpLandsOnLabel ==
  [][ \A k \in JumpEntries :
        LET p == buffer[k].pos
            L == buffer[k].label
        IN  ( /\ L \in DOMAIN symbol_table
              /\ symbol_table[L] - p >= 0 - 128
              /\ symbol_table[L] - p <= 0
              /\ pc = p
              /\ Intact(p, 2)
              /\ Executes(JumpBw) )
            => pc' = symbol_table[L] ]_vars

\* what the code does on a forward jump: it lands two bytes behind the label
C1_ForwardJumpOvershoots ==
  [][ \A k \in JumpEntries :
        LET p == buffer[k].pos
            L == buffer[k].label
        IN  ( /\ L \in DOMAIN symbol_table
              /\ symbol_table[L] - p > 0
              /\ symbol_table[L] - p <= 255
              /\ pc = p
              /\ Intact(p, 2)
              /\ Executes(JumpFw) )
            => pc' = symbol_table[L] + 2 ]_vars

RECURSIVE PendingCall(_, _)
\* the index in the history of the call that a return executed after the
\* first i entries answers: calls and returns nest; 0 when there is none
PendingCall(i, depth) ==
  IF i = 0 THEN 0
  ELSE IF trace[i].op = Return THEN PendingCall(i - 1, depth + 1)
  ELSE IF trace[i].op = Call
       THEN IF depth = 0 THEN i ELSE PendingCall(i - 1, depth - 1)
  ELSE PendingCall(i - 1, depth)

\* the two bytes where the call of history entry k saved its return address
SavedSlot(k) ==
  { PushSlot(trace[k].registers), AsU16(PushSlot(trace[k].registers) + 1) }

\* no push or call among the history entries k+1 .. n stored into that slot
SlotKept(k, n) ==
  \A j \in (k + 1)..n :
    trace[j].op \in {Push, Call} =>
      { PushSlot(trace[j].registers), AsU16(PushSlot(trace[j].registers) + 1) }
        \cap SavedSlot(k) = {}

\* C2: for every call at offset p executed with stack pointer s (even,
\* 2 <= s <= 1022): if the subroutine leaves the stack balanced and does not
\* overwrite the saved return slot, the matching ret sets the program counter
\* to p + 3 and leaves the stack pointer equal to s.
C2_ReturnResumesAfterCall ==
  [][ LET k == PendingCall(Len(trace), 0)
      IN  ( /\ phase = "running"
            /\ Len(trace') = Len(trace) + 1
            /\ InRam(pc)
            /\ ram[pc] = Return
            /\ k # 0
            /\ trace[k].registers[SP_REGISTER] \in 2..1022
            /\ trace[k].registers[SP_REGISTER] % 2 = 0
            /\ registers[SP_REGISTER] = trace[k].registers[SP_REGISTER] - 2
            /\ SlotKept(k, Len(trace)) )
          => /\ phase' = "running"
             /\ pc' = trace[k].pc + 3
             /\ registers'[SP_REGISTER] = trace[k].registers[SP_REGISTER] ]_vars

\* C2 happens: a return has just answered a call whose subroutine pushed and
\* popped, and the run resumed behind the call with the stack pointer restored
C2_Witness ==
  /\ phase = "running"
  /\ Len(trace) >= 4
  /\ Last.op = Return
  /\ LET k == PendingCall(Len(trace) - 1, 0)
     IN  /\ k # 0
         /\ \E j \in (k + 1)..(Len(trace) - 1) : trace[j].op = Push
         /\ \E j \in (k + 1)..(Len(trace) - 1) : trace[j].op = Pop
         /\ pc = trace[k].pc + 3
         /\ registers[SP_REGISTER] = trace[k].registers[SP_REGISTER]
         /\ trace[k].registers[SP_REGISTER] = 600

\* C3: for every register R in 0..15 (the stack pointer included) and every
\* stack pointer s with 2 <= s <= 1022, `push R` immediately followed by
\* `pop R` leaves R holding the value it had before the push and leaves the
\* stack pointer equal to s.
C3_PushPopRoundTrip ==
  [][ ( /\ Executes(Pop)
        /\ Len(trace) >= 1
        /\ Last.op = Push
        /\ pc = Last.pc + 2
        /\ InRam(pc + 1)
        /\ ram[pc] = Pop
        /\ ram[Last.pc] = Push
        /\ ram[pc + 1] = ram[Last.pc + 1]
        /\ ram[pc + 1] \in 0..15
        /\ Last.registers[SP_REGISTER] \in 2..1022 )
      => /\ registers'[ram[pc + 1]] = Last.registers[ram[pc + 1]]
         /\ registers'[SP_REGISTER] = Last.registers[SP_REGISTER] ]_vars

\* what the code does for every register but the stack pointer, away from the
\* bytes of the two instructions themselves
C3_PushPopRoundTripBelow15 ==
  [][ ( /\ Executes(Pop)
        /\ Len(trace) >= 1
        /\ Last.op = Push
        /\ pc = Last.pc + 2
        /\ InRam(pc + 1)
        /\ ram[pc] = Pop
        /\ ram[Last.pc] = Push
        /\ ram[pc + 1] = ram[Last.pc + 1]
        /\ ram[pc + 1] \in 0..14
        /\ Last.registers[SP_REGISTER] \in 2..1022 )
      => /\ registers'[ram[pc + 1]] = Last.registers[ram[pc + 1]]
         /\ registers'[SP_REGISTER] = Last.registers[SP_REGISTER] ]_vars

\* C4: register 0 reads as 0 in every reachable state of the VM.
C4_RegisterZeroIsZero == registers[0] = 0

\* C4 happens: a load of a nonzero immediate into register 0 was executed
C4_Witness ==
  /\ phase = "running"
  /\ Len(trace) >= 1
  /\ Last.op \in {SetByte, SetShort}
  /\ ram[Last.pc] = Last.op
  /\ ram[Last.pc + 1] = 0
  /\ ram[Last.pc + 2] # 0

\* C5: a `then` marker at offset p followed by an instruction of opcode X in
\* 0..25: with the flag false the program counter becomes
\* p + 1 + INSTRUCTION_LEN[X] (p + 3 for a two-byte instruction) and no
\* register, memory byte or the flag changes; with the flag true the program
\* counter becomes p + 1 and the guarded instruction is the next one executed.
\* `else` does the same with the flag values exchanged.
C5_MarkerSkipsOneInstruction ==
  [][ /\ \A op \in {Then, Otherwise} :
           ( /\ phase = "running"
             /\ Len(trace') = Len(trace) + 1
             /\ InRam(pc + 1)
             /\ ram[pc] = op
             /\ ram[pc + 1] \in 0..25 )
           => LET X == ram[pc + 1]
                  skipping == (op = Then /\ ~skip_flag) \/ (op = Otherwise /\ skip_flag)
              IN  /\ phase' = "running"
                  /\ registers' = registers
                  /\ ram' = ram
                  /\ skip_flag' = skip_flag
                  /\ out' = out
                  /\ skipping => pc' = pc + 1 + INSTRUCTION_LEN(X)
                  /\ (skipping /\ X \in {JumpFw, JumpBw, Push, Pop, Neg}) => pc' = pc + 3
                  /\ ~skipping => pc' = pc + 1
      /\ ( /\ phase = "running"
           /\ Len(trace') = Len(trace) + 1
           /\ Len(trace) >= 1
           /\ Last.op \in {Then, Otherwise}
           /\ ram[Last.pc] = Last.op
           /\ ram[Last.pc + 1] \in 0..25
           /\ ((Last.op = Then /\ skip_flag) \/ (Last.op = Otherwise /\ ~skip_flag)) )
         => /\ trace'[Len(trace')].pc = Last.pc + 1
            /\ trace'[Len(trace')].op = ram[Last.pc + 1] ]_vars

\* C5 happens: a then has just skipped a two-byte instruction
C5_Witness ==
  /\ phase = "running"
  /\ Len(trace) >= 1
  /\ Last.op = Then
  /\ ram[Last.pc] = Then
  /\ ~skip_flag
  /\ ram[Last.pc + 1] \in {JumpFw, JumpBw, Push, Pop, Neg}
  /\ pc = Last.pc + 3

\* the number of bytes the image holds for an instruction, by its kind
EncodedLength(inst) ==
  CASE inst.op = "Label" -> 0
    [] inst.op \in {"Nop", "Exit", "Then", "Otherwise", "Return"} -> 1
    [] inst.op \in {"Jump", "Push", "Pop", "Neg"} -> 2
    [] inst.op = "SetShort" -> 4
    [] OTHER -> 3

RECURSIVE OffsetOf(_, _)
\* the sum of the encoded lengths of the instructions before the i-th
OffsetOf(list, i) ==
  IF i <= 1 THEN 0 ELSE OffsetOf(list, i - 1) + EncodedLength(list[i - 1])

\* where a label is declared, and the instructions that refer to a label
Declarations(L) == { i \in 1..Len(insts) : insts[i].op = "Label" /\ insts[i].label = L }
References == { i \in 1..Len(insts) : insts[i].op \in {"Jump", "Call"} }
UndeclaredReferences == { i \in References : Declarations(insts[i].label) = {} }
\* Compiler::compile has returned, once
Compiled_ == phase \notin {"text", "lexed", "source", "parse_error", "parsed", "recompiled"}

\* C6: every reference to a label declared once, before or after the
\* declaration, is resolved against the same offset, the index in the image of
\* the first byte of the instruction that follows the declaration (the sum of
\* the encoded lengths of the instructions before it); a reference ahead of
\* its declaration never makes the assembly fail.
C6_LabelsResolveToOneOffset ==
  Compiled_ =>
    /\ UndeclaredReferences = {} => (phase # "asm_error" /\ error.stage = "none")
    /\ error.stage = "none" =>
         \A i \in References :
           Cardinality(Declarations(insts[i].label)) = 1 =>
             LET t == OffsetOf(insts, CHOOSE d \in Declarations(insts[i].label) : TRUE)
                 p == OffsetOf(insts, i)
             IN  /\ symbol_table[insts[i].label] = t
                 /\ insts[i].op = "Jump" =>
                      /\ asm[p + 1] = (IF t > p THEN JumpFw ELSE JumpBw)
                      /\ asm[p + 2] = (t - p) % 256
                 /\ insts[i].op = "Call" =>
                      /\ asm[p + 1] = Call
                      /\ asm[p + 2] = t \div 256
                      /\ asm[p + 3] = t % 256

\* C6 happens: a program was assembled in which a label declared once, at an
\* offset above 0, is the target of a reference before and of one after it
C6_Witness ==
  /\ phase = "assembled"
  /\ \E i, j \in References :
       /\ insts[i].label = insts[j].label
       /\ Cardinality(Declarations(insts[i].label)) = 1
       /\ \E d \in Declarations(insts[i].label) : i < d /\ d < j /\ OffsetOf(insts, d) > 0
       /\ insts[i].op = "Jump"
       /\ insts[j].op = "Call"

\* the least element of a nonempty set of numbers
Least(S) == CHOOSE i \in S : \A j \in S : i <= j

\* C7: if a jump or call refers to a label declared nowhere in the list,
\* compile returns an error that names an undeclared label (the first one
\* pass 2 meets) and no image bytes, wherever the reference stands.
C7_UndeclaredLabelFailsAssembly ==
  (Compiled_ /\ UndeclaredReferences # {}) =>
    /\ phase = "asm_error"
    /\ error.stage = "compile"
    /\ error.label = insts[Least(UndeclaredReferences)].label
    /\ error.msg = (IF insts[Least(UndeclaredReferences)].op = "Jump"
                    THEN "Jump to invalid label: " ELSE "Call to invalid label: ")
    /\ asm = << >>
    /\ pc = 0
    /\ \A i \in 0..(RAM_LEN - 1) : ram[i] = 0

\* C7 happens: the assembly failed on a reference that follows instructions
\* whose bytes pass 2 had already emitted
C7_Witness ==
  /\ phase = "asm_error"
  /\ UndeclaredReferences # {}
  /\ Least(UndeclaredReferences) > 1
  /\ OffsetOf(insts, Least(UndeclaredReferences)) > 0
  /\ error.label = "m"

\* C8: add a, b with a # 0 leaves register a equal to (x + y) mod 65536 and
\* sub a, b leaves it equal to (x - y) mod 65536, x and y being the contents
\* of a and b before; the result wraps, it never saturates and never faults.
C8_AddSubWrap ==
  [][ \A op \in {Add, Sub} :
        ( /\ phase = "running"
          /\ Len(trace') = Len(trace) + 1
          /\ InRam(pc + 2)
          /\ ram[pc] = op
          /\ trace'[Len(trace')].op = op
          /\ ram[pc + 1] \in 1..15
          /\ ram[pc + 2] \in 0..15 )
        => LET a == ram[pc + 1]
               x == registers[a]
               y == registers[ram[pc + 2]]
           IN  /\ phase' = "running"
               /\ registers'[a] = (IF op = Add THEN (x + y) % 65536 ELSE (x - y) % 65536)
               /\ \A r \in 0..15 : r # a => registers'[r] = registers[r]
               /\ pc' = pc + 3 ]_vars

\* C8 happens: an add whose unsigned sum passed 65535 and whose signed sum
\* left the i16 range has wrapped
C8_Witness ==
  /\ phase = "running"
  /\ Len(trace) >= 1
  /\ Last.op = Add
  /\ ram[Last.pc] = Add
  /\ LET a == ram[Last.pc + 1]
         b == ram[Last.pc + 2]
     IN  /\ a \in 1..15
         /\ b \in 1..15
         /\ a # b
         /\ Last.registers[a] + Last.registers[b] >= 65536
         /\ AsI16(Last.registers[a]) + AsI16(Last.registers[b]) < 0 - 32768
         /\ registers[a] = Last.registers[a] + Last.registers[b] - 65536

\* C9: div a, b and mod a, b with register b holding 0 leave every register
\* unchanged, raise no fault and move the program counter past the three
\* bytes of the instruction.
C9_DivModByZeroIsNoOp ==
  [][ \A op \in {Div, Mod} :
        ( /\ phase = "running"
          /\ Len(trace') = Len(trace) + 1
          /\ InRam(pc + 2)
          /\ ram[pc] = op
          /\ trace'[Len(trace')].op = op
          /\ ram[pc + 1] \in 0..15
          /\ ram[pc + 2] \in 0..15
          /\ registers[ram[pc + 2]] = 0 )
        => /\ phase' = "running"
           /\ registers' = registers
           /\ ram' = ram
           /\ pc' = pc + 3 ]_vars

\* C9 happens: a div of a nonzero register by a register other than register 0
\* that holds 0 has executed
C9_Witness ==
  /\ phase = "running"
  /\ Len(trace) >= 1
  /\ Last.op = Div
  /\ ram[Last.pc] = Div
  /\ ram[Last.pc + 1] \in 1..15
  /\ ram[Last.pc + 2] \in 1..15
  /\ Last.registers[ram[Last.pc + 1]] # 0
  /\ Last.registers[ram[Last.pc + 2]] = 0
  /\ registers = Last.registers
  /\ pc = Last.pc + 3

\* the decimal numerals, and the number a numeral string denotes
Numerals == << "0", "1", "2", "3", "4", "5", "6", "7", "8", "9" >>
IsNumeral(c) == \E d \in 1..10 : Numerals[d] = c
NumeralValue(c) == (CHOOSE d \in 1..10 : Numerals[d] = c) - 1
RECURSIVE DecimalValue(_)
DecimalValue(numerals) ==
  IF Len(numerals) = 0 THEN 0
  ELSE 10 * DecimalValue(SubSeq(numerals, 1, Len(numerals) - 1))
       + NumeralValue(numerals[Len(numerals)])
\* the output ends with the line that println!("{}", v) writes
EndsWithDecimalLine(o, v) ==
  \E n \in 1..5 :
    /\ Len(o) >= n + 1
    /\ o[Len(o)] = "\n"
    /\ \A k \in (Len(o) - n)..(Len(o) - 1) : IsNumeral(o[k])
    /\ (n > 1 => o[Len(o) - n] # "0")
    /\ (Len(o) > n + 1 => ~IsNumeral(o[Len(o) - n - 1]))
    /\ DecimalValue(SubSeq(o, Len(o) - n, Len(o) - 1)) = v

\* the lines `set R, V` of an accepted source, V in 0..65535
SetLines ==
  { i \in 1..Len(source) :
      /\ Len(insts) = Len(source)
      /\ source[i].name = "set"
      /\ source[i].int \in 0..65535
      /\ insts[i].op \in {"SetByte", "SetShort"} }

\* C10: a line `set R, V` with V in 0..65535 is assembled to the three bytes
\* SetByte, R, V exactly when V <= 255 and to the four bytes SetShort, R,
\* V div 256, V mod 256 otherwise; once it has executed, register R holds V,
\* or 0 when R is register 0; and a `dbg R, 0` that follows it prints that
\* value in decimal on a line of its own.
C10_SetLoadsImmediate ==
  \A i \in SetLines :
    LET R == insts[i].a
        V == source[i].int
        p == OffsetOf(insts, i)
        n == IF V <= 255 THEN 3 ELSE 4
        held == IF R = 0 THEN 0 ELSE V
        executed(k) == /\ k >= 1
                       /\ Len(trace) >= k
                       /\ trace[k].pc = p
                       /\ trace[k].op \in {SetByte, SetShort}
                       /\ Intact(p, n)
    IN  /\ R \in 0..15
        /\ (Compiled_ /\ error.stage = "none") =>
             /\ V <= 255 => SubSeq(asm, p + 1, p + 3) = << SetByte, R, V >>
             /\ V > 255 => SubSeq(asm, p + 1, p + 4) = << SetShort, R, V \div 256, V % 256 >>
        /\ (phase = "running" /\ executed(Len(trace))) =>
             /\ registers[R] = held
             /\ pc = p + n
             /\ \A r \in 0..15 : r # R => registers[r] = trace[Len(trace)].registers[r]
        /\ ( /\ phase = "running"
             /\ executed(Len(trace) - 1)
             /\ i < Len(source)
             /\ source[i + 1].name = "dbg"
             /\ source[i + 1].r1 = source[i].r1
             /\ source[i + 1].int = 0
             /\ Last.pc = p + n
             /\ Last.op = Debug
             /\ Intact(p + n, 3) ) =>
             /\ EndsWithDecimalLine(out, held)
             /\ registers[R] = held

\* C10 happens: a wide set of a register other than register 0 was executed
\* and the dbg after it has printed the five numerals of the value
C10_Witness ==
  /\ phase = "running"
  /\ 1 \in SetLines
  /\ insts[1].a \in 1..15
  /\ source[1].int = 32768
  /\ Len(source) = 2
  /\ source[2].name = "dbg"
  /\ Len(trace) = 2
  /\ Last.op = Debug
  /\ asm = << SetShort, insts[1].a, 128, 0, Debug, insts[1].a, 0, Exit >>
  /\ registers[insts[1].a] = 32768
  /\ out = << "3", "2", "7", "6", "8", "\n" >>

\* a step of the run that executes the instruction of opcode op stored at pc
\* with a register operand
RegisterStep(op) ==
  /\ phase = "running"
  /\ Len(trace') = Len(trace) + 1
  /\ trace'[Len(trace')].op = op
  /\ InRam(pc + 1)
  /\ ram[pc] = op
  /\ ram[pc + 1] \in 0..15

\* C11: a push of register R with the stack pointer at s, 2 <= s <= 1022,
\* sets the stack pointer to s - 2 and stores the value of R at the new
\* position, the high byte in memory[s - 2] and the low byte in
\* memory[s - 1]; no other byte of memory changes. (R below 15, so that the
\* value pushed does not depend on the stack pointer.)
C11_PushStoresAtNewTop ==
  [][ (RegisterStep(Push) /\ ram[pc + 1] \in 0..14 /\ registers[SP_REGISTER] \in 2..1022)
      => LET s == registers[SP_REGISTER]
             v == registers[ram[pc + 1]]
         IN  /\ registers'[SP_REGISTER] = s - 2
             /\ ram'[s - 2] = v \div 256
             /\ ram'[s - 1] = v % 256
             /\ \A i \in 0..(RAM_LEN - 1) : i \notin {s - 2, s - 1} => ram'[i] = ram[i] ]_vars

\* what the Push arm does: the value goes to the bytes s and s + 1 of the
\* stack pointer it found, and the stack pointer becomes s - 2
C11_PushStoresAtOldTop ==
  [][ (RegisterStep(Push) /\ ram[pc + 1] \in 0..14 /\ registers[SP_REGISTER] \in 2..1022)
      => LET s == registers[SP_REGISTER]
             v == registers[ram[pc + 1]]
         IN  /\ phase' = "running"
             /\ registers'[SP_REGISTER] = s - 2
             /\ ram'[s] = v \div 256
             /\ ram'[s + 1] = v % 256
             /\ \A i \in 0..(RAM_LEN - 1) : i \notin {s, s + 1} => ram'[i] = ram[i] ]_vars

\* C12: a pop into register R # 0 with the stack pointer at s, 0 <= s <= 1022,
\* loads R with (memory[s] << 8) | memory[s + 1] and then sets the stack
\* pointer to s + 2; with s = 1022 it reads the bytes 1022 and 1023 and does
\* not fault. (R below 15, so that the load and the new stack pointer are
\* different registers.)
C12_PopLoadsFromCurrentTop ==
  [][ (RegisterStep(Pop) /\ ram[pc + 1] \in 1..14 /\ registers[SP_REGISTER] \in 0..1022)
      => LET s == registers[SP_REGISTER]
         IN  /\ phase' = "running"
             /\ registers'[ram[pc + 1]] = ram[s] * 256 + ram[s + 1]
             /\ registers'[SP_REGISTER] = s + 2 ]_vars

\* what the Pop arm does: the stack pointer becomes s + 2 first and the
\* register is loaded from the bytes s + 2 and s + 3, which are outside the
\* memory for s above 1020
C12_PopLoadsFromIncrementedTop ==
  [][ (RegisterStep(Pop) /\ ram[pc + 1] \in 1..14 /\ registers[SP_REGISTER] \in 0..1022)
      => LET s == registers[SP_REGISTER]
         IN  IF s <= 1020
             THEN /\ phase' = "running"
                  /\ registers'[ram[pc + 1]] = ram[s + 2] * 256 + ram[s + 3]
                  /\ registers'[SP_REGISTER] = s + 2
             ELSE phase' = "fault" ]_vars

\* the instruction list has no jump, call, return, push or pop
StraightLine ==
  /\ buffer # << >>
  /\ \A i \in 1..Len(insts) : insts[i].op \notin {"Jump", "Call", "Return", "Push", "Pop"}

\* C13: a program assembled from a list without jump, call, return, push and
\* pop ends its run by executing an exit opcode of its image; the run never
\* leaves the image and never ends in a fault.
C13_StraightLineRunsEndAtExit ==
  (StraightLine /\ phase \in {"running", "exited", "fault"}) =>
    /\ phase # "fault"
    /\ phase = "running" => pc < Len(asm)
    /\ phase = "exited" =>
         /\ Last.op = Exit
         /\ Last.pc < Len(asm)
         /\ asm[Last.pc + 1] = Exit

\* the value of 16 bits read as a signed number
Signed(x) == IF x >= 32768 THEN x - 65536 ELSE x

\* C17: gt, lt, ge and le set the flag to the comparison of the two register
\* contents read as signed 16-bit numbers, eq and neq to the equality of the
\* bit patterns, and no comparison changes a register or a byte of memory.
C17_ComparisonsAreSigned ==
  [][ \A op \in {GreaterThan, LessThan, GreaterEqual, LessEqual, Equal, NotEqual} :
        (RegisterStep(op) /\ InRam(pc + 2) /\ ram[pc + 2] \in 0..15)
        => LET x == registers[ram[pc + 1]]
               y == registers[ram[pc + 2]]
           IN  /\ phase' = "running"
               /\ op = GreaterThan => (skip_flag' <=> Signed(x) > Signed(y))
               /\ op = LessThan => (skip_flag' <=> Signed(x) < Signed(y))
               /\ op = GreaterEqual => (skip_flag' <=> Signed(x) >= Signed(y))
               /\ op = LessEqual => (skip_flag' <=> Signed(x) <= Signed(y))
               /\ op = Equal => (skip_flag' <=> x = y)
               /\ op = NotEqual => (skip_flag' <=> x # y)
               /\ registers' = registers
               /\ ram' = ram
               /\ pc' = pc + 3 ]_vars

\* C17 happens: lt has compared 0xFFFF with a small positive value and set
\* the flag
C17_Witness ==
  /\ phase = "running"
  /\ Len(trace) >= 1
  /\ Last.op = LessThan
  /\ ram[Last.pc] = LessThan
  /\ ram[Last.pc + 1] \in 1..15
  /\ ram[Last.pc + 2] \in 1..15
  /\ registers[ram[Last.pc + 1]] = 65535
  /\ registers[ram[Last.pc + 2]] \in 1..7
  /\ skip_flag

\* C20: call changes no register but the stack pointer; ret changes no
\* register but the stack pointer and register 14, which receives the return
\* address it pops, so that a value held in register 14 before a call and
\* its return is lost.
C20_CallReturnRegisterFrame ==
  [][ /\ ( /\ phase = "running"
           /\ Len(trace') = Len(trace) + 1
           /\ trace'[Len(trace')].op = Call
           /\ InRam(pc)
           /\ ram[pc] = Call )
         => \A r \in 0..15 : r # SP_REGISTER => registers'[r] = registers[r]
      /\ ( /\ phase = "running"
           /\ Len(trace') = Len(trace) + 1
           /\ trace'[Len(trace')].op = Return
           /\ InRam(pc)
           /\ ram[pc] = Return )
         => /\ \A r \in 0..15 :
                 r \notin {SP_REGISTER, AT_REGISTER} => registers'[r] = registers[r]
            /\ phase' = "running" =>
                 LET s == registers'[SP_REGISTER]
                 IN  /\ registers'[AT_REGISTER] = ram[s] * 256 + ram[s + 1]
                     /\ pc' = registers'[AT_REGISTER] ]_vars

\* C20 happens: register 14 held 77 when the call was made, and after the
\* return it holds the return address instead
C20_Witness ==
  /\ phase = "running"
  /\ Len(trace) >= 2
  /\ Last.op = Return
  /\ trace[Len(trace) - 1].op = Call
  /\ trace[Len(trace) - 1].registers[AT_REGISTER] = 77
  /\ Last.registers[AT_REGISTER] = 77
  /\ registers[AT_REGISTER] = trace[Len(trace) - 1].pc + 3
  /\ pc = registers[AT_REGISTER]

\* the lexer and the parser have returned
Lexed == phase \notin {"text"}
Parsed == phase \notin {"text", "lexed", "source"}

\* C14: the text set a, 5 / set b, 3 / add a, b / dbg a, 0 / exit passes the
\* lexer, the parser and the compiler, is loaded and run without a fault,
\* the run stops at the exit of its last line, and all it prints is 8.
C14_FiveLinesPrintEight ==
  text \in {FiveLines, FiveLines \o << "\n" >>} =>
    /\ phase \notin {"parse_error", "asm_error", "fault"}
    /\ Lexed => /\ Len(tokens) \in {22, 23}
                /\ tokens[Len(tokens)].type = "Eof"
    /\ Parsed => insts = << PInst("SetByte", 1, 5, ""), PInst("SetByte", 2, 3, ""),
                            PInst("Add", 1, 2, ""), PInst("Debug", 1, 0, ""),
                            PInst("Exit", 0, 0, "") >>
    /\ Compiled_ => asm = << SetByte, 1, 5, SetByte, 2, 3, Add, 1, 2, Debug, 1, 0, Exit, Exit >>
    /\ phase = "running" =>
         /\ Len(trace) <= 4
         /\ pc = 3 * Len(trace)
         /\ out = (IF Len(trace) = 4 THEN << "8", "\n" >> ELSE << >>)
    /\ phase = "exited" =>
         /\ Len(trace) = 5
         /\ Last.op = Exit
         /\ Last.pc = 12
         /\ registers[1] = 8
         /\ out = << "8", "\n" >>

\* C14 happens: the run of the five lines has stopped at the exit
C14_Witness ==
  /\ text = FiveLines
  /\ phase = "exited"
  /\ Last.pc = 12
  /\ out = << "8", "\n" >>

\* set a, 0x10
HexTen == << "s", "e", "t", " ", "a", ",", " ", "0", "x", "1", "0" >>

\* C15: a literal that begins with 0, x and a decimal digit is read as
\* hexadecimal by the lexer and the parser together: set a, 0x10 parses to a
\* load of 16 into register a.
C15_HexLiteralIsRead ==
  (text = HexTen /\ Parsed) =>
    /\ phase # "parse_error"
    /\ insts = << PInst("SetByte", 1, 16, "") >>

\* what the code does with set a, 0x10: the lexer makes one Int token of the
\* four bytes 0x10, and the parser cannot read it as a number
C15_HexLiteralIsRejected ==
  (text = HexTen /\ Lexed) =>
    /\ tokens = << Token("Id", 0, 3), Token("Id", 4, 5), Token("Comma", 5, 6),
                   Token("Int", 7, 11), Token("Eof", 11, 11) >>
    /\ Parsed => /\ phase = "parse_error"
                 /\ error.msg = "Unable to parse integer"
                 /\ insts = << >>

\* C16: for each register slot 1..13 the text that names it by its numeric
\* alias ($0 .. $12) gives the same register index and the same image as the
\* text that names it by its letter (a .. m).
C16_NumericAliasAssemblesAsLetter ==
  \A slot \in 1..13 :
    (text \in {PushText(NumericAlias(slot)), PushText(LetterAlias(slot))} /\ Parsed) =>
      /\ phase # "parse_error"
      /\ insts = << PInst("Push", slot, 0, "") >>
      /\ Compiled_ => asm = << Push, slot, Exit >>

\* what the code does: the lexer drops the byte $ and makes an Int token of
\* the digits, where parse_reg needs an Id; the letter alias is assembled
C16_NumericAliasIsRejected ==
  \A slot \in 1..13 :
    /\ (text = PushText(NumericAlias(slot)) /\ Lexed) =>
         /\ tokens[2].type = "Int"
         /\ Parsed => (phase = "parse_error" /\ error.msg = "Expected Id")
    /\ (text = PushText(LetterAlias(slot)) /\ Compiled_) => asm = << Push, slot, Exit >>

\* C18: after VM::new, n <= 1024 calls of set with the bytes of an image and
\* reset, memory[0..n) holds the image in order, memory[n..1024) is zero, the
\* program counter is 0, the stack pointer is 1022, registers 0..14 are 0
\* and the flag is false.
C18_LoadedAndResetState ==
  (phase = "running" /\ Len(trace) = 0) =>
    /\ Len(asm) <= RAM_LEN
    /\ \A i \in 0..(RAM_LEN - 1) : ram[i] = (IF i < Len(asm) THEN asm[i + 1] ELSE 0)
    /\ pc = 0
    /\ registers[SP_REGISTER] = 1022
    /\ \A r \in 0..14 : registers[r] = 0
    /\ ~skip_flag

\* C18 happens: an image of 1024 bytes has been loaded and the VM reset
C18_Witness ==
  /\ phase = "running"
  /\ Len(trace) = 0
  /\ Len(asm) = 1024
  /\ ram[1023] = asm[1024]
  /\ ram[1023] # 0
  /\ pc = 0

\* C19: compiling the same instruction list a second time with the same
\* Compiler returns the image the first compile returned.
C19_SecondCompileReturnsSameImage ==
  phase = "recompiled" => (second.ok /\ second.asm = asm)

\* what the code does: pos, buffer and symbol_table are kept, so the second
\* compile emits the entries of the first once more, resolved against the
\* labels as the second pass 1 placed them, and then its own
C19_SecondCompileAppends ==
  phase = "recompiled" =>
    /\ second.ok
    /\ Len(second.asm) = 2 * Len(asm)
    /\ pos = 2 * Len(asm)
    /\ second.asm # asm
    /\ \A i \in 1..Len(insts) :
         insts[i].op = "Label" =>
           symbol_table[insts[i].label] >= Len(asm)

\* a step of the run that executes the push or the call stored at pc, with
\* its operand bytes in memory and, for a push, a register 0..15
StackStep(op) ==
  /\ phase = "running"
  /\ Len(trace') = Len(trace) + 1
  /\ trace'[Len(trace')].op = op
  /\ ram[pc] = op
  /\ InRam(pc + 1)
  /\ IF op = Push THEN ram[pc + 1] \in 0..15 ELSE InRam(pc + 2)

\* the 16 bits a push or a call at pc puts on the stack: the register as it
\* is after the decrement of the stack pointer, or the return address
StackedValue(op) ==
  IF op = Call THEN pc + 3
  ELSE IF ram[pc + 1] = SP_REGISTER THEN AsU16(registers[SP_REGISTER] - 2)
  ELSE registers[ram[pc + 1]]

\* C21: a push or a call executed when the stack pointer s addresses two
\* bytes of the loaded image overwrites these bytes and raises no fault; a
\* push or a call faults only when the stack access indexes an address at or
\* beyond 1024.
C21_StackOverwritesImage ==
  [][ \A op \in {Push, Call} :
        StackStep(op) =>
          LET s == registers[SP_REGISTER]
              v == StackedValue(op)
          IN  /\ s + 1 < Len(asm) =>
                   /\ phase' = "running"
                   /\ ram'[s] = v \div 256
                   /\ ram'[s + 1] = v % 256
              /\ phase' = "fault" => s + 1 >= RAM_LEN ]_vars

\* what the code does: the same for a stack pointer of 2 or more; below 2
\* the decrement of the stack pointer underflows, and a build that checks
\* arithmetic overflow panics there before any byte is stored
C21_StackOverwritesImageAboveOne ==
  [][ \A op \in {Push, Call} :
        StackStep(op) =>
          LET s == registers[SP_REGISTER]
              v == StackedValue(op)
          IN  /\ (s >= 2 /\ s + 1 < Len(asm)) =>
                   /\ phase' = "running"
                   /\ ram'[s] = v \div 256
                   /\ ram'[s + 1] = v % 256
              /\ phase' = "fault" => (s + 1 >= RAM_LEN \/ (s < 2 /\ ram' = ram)) ]_vars

\* C21 happens: the run has fetched, as an exit, a byte that a push wrote
\* over a nop of the image
C21_OverwrittenByteFetched ==
  /\ phase = "exited"
  /\ Len(trace) >= 2
  /\ \E k \in 1..(Len(trace) - 1) : trace[k].op = Push
  /\ Last.op = Exit
  /\ Last.pc < Len(asm)
  /\ asm[Last.pc + 1] = Nop
  /\ ram[Last.pc] = Exit

\* the greatest element of a nonempty set of numbers
Greatest(S) == CHOOSE i \in S : \A j \in S : j <= i

\* the labels the list declares more than once
Redeclared == { insts[i].label : i \in { k \in 1..Len(insts) :
                   insts[k].op = "Label" /\ Cardinality(Declarations(insts[k].label)) > 1 } }

\* C22: when a label is declared more than once, the assembly reports no
\* error for it, and every jump or call to that name, before, between or
\* after the declarations, is resolved to the offset of the last declaration.
C22_LastDeclarationWins ==
  (Compiled_ /\ Redeclared # {}) =>
    /\ UndeclaredReferences = {} => (phase # "asm_error" /\ error.stage = "none")
    /\ error.stage = "none" =>
         /\ \A L \in Redeclared : symbol_table[L] = OffsetOf(insts, Greatest(Declarations(L)))
         /\ \A i \in References :
              insts[i].label \in Redeclared =>
                LET t == OffsetOf(insts, Greatest(Declarations(insts[i].label)))
                    p == OffsetOf(insts, i)
                IN  /\ insts[i].op = "Jump" =>
                         /\ asm[p + 1] = (IF t > p THEN JumpFw ELSE JumpBw)
                         /\ asm[p + 2] = (t - p) % 256
                    /\ insts[i].op = "Call" =>
                         /\ asm[p + 1] = Call
                         /\ asm[p + 2] = t \div 256
                         /\ asm[p + 3] = t % 256

\* C22 happens: a program was assembled in which a label is declared at two
\* different offsets, with a reference before the first declaration, one
\* between the two and one after the last
C22_Witness ==
  /\ phase = "assembled"
  /\ \E L \in Redeclared :
       LET first == Least(Declarations(L))
           last == Greatest(Declarations(L))
       IN  /\ OffsetOf(insts, first) < OffsetOf(insts, last)
           /\ \E i, j, k \in References :
                /\ insts[i].label = L /\ insts[j].label = L /\ insts[k].label = L
                /\ i < first /\ first < j /\ j < last /\ last < k
                /\ insts[i].op = "Jump" /\ insts[j].op = "Call"

\* the number of bytes pass 2 pushes to asm for an entry of the buffer
EmittedLength(e) ==
  Len(resolve_entry([symbol_table |-> symbol_table, buffer |-> buffer, pos |-> pos], e).asm)

RECURSIVE BoundaryOf(_)
\* the offset in the image of the bytes of the k-th entry of the buffer
BoundaryOf(k) ==
  IF k <= 1 THEN 0 ELSE BoundaryOf(k - 1) + EmittedLength(buffer[k - 1])

\* the boundaries of the image, its end included
Boundaries == { BoundaryOf(k) : k \in 1..(Len(buffer) + 1) }

\* the assembler's side: every entry of the buffer is emitted with the
\* length INSTRUCTION_LEN gives the opcode byte it starts with (so that a
\* walk of the image by INSTRUCTION_LEN meets exactly the boundaries), a jump
\* placeholder recorded its boundary as its own offset, every label was
\* given a boundary, and the running offset ended at the length of the image
ImageLaidOutByTable ==
  (Compiled_ /\ buffer # << >> /\ error.stage = "none") =>
    /\ Len(asm) = pos
    /\ BoundaryOf(Len(buffer) + 1) = Len(asm)
    /\ \A k \in 1..Len(buffer) :
         LET e == buffer[k]
             at == BoundaryOf(k)
         IN  /\ at < Len(asm)
             /\ asm[at + 1] <= Debug
             /\ EmittedLength(e) = INSTRUCTION_LEN(asm[at + 1])
             /\ e.kind = "Compiled" => SubSeq(asm, at + 1, at + Len(e.bytes)) = e.bytes
             /\ e.kind = "JumpPlaceHolder" =>
                  /\ e.pos = at
                  /\ asm[at + 1] \in {JumpFw, JumpBw}
             /\ e.kind = "CallPlaceHolder" => asm[at + 1] = Call
    /\ \A L \in DOMAIN symbol_table : symbol_table[L] \in Boundaries

\* the opcodes whose arm sets the program counter to a target or ends the run
ControlOps == {Exit, JumpFw, JumpBw, Return, Call}

\* the VM's side: an instruction that is no control transfer and does not
\* fault moves the program counter by INSTRUCTION_LEN of its opcode, a marker
\* that skips by its own length and that of the opcode behind it
StepsByTable ==
  \A op \in (0..Debug) \ ControlOps :
    (Executes(op) /\ ram[pc] = op) =>
      IF op \in {Then, Otherwise} /\ Skips(op, skip_flag)
      THEN pc' = pc + INSTRUCTION_LEN(op) + INSTRUCTION_LEN(ram[pc + 1])
      ELSE pc' = pc + INSTRUCTION_LEN(op)

\* the run so far took no control transfer and the image is in memory as
\* the assembler emitted it
OnStraightPath ==
  /\ phase \in {"running", "exited"}
  /\ buffer # << >>
  /\ \A k \in 1..Len(trace) : trace[k].op \notin {JumpFw, JumpBw, Return, Call}
  /\ \A i \in 1..Len(asm) : ram[i - 1] = asm[i]

\* C23: the bytes the assembler emits for an instruction, and by which pass 1
\* advances its offset, are INSTRUCTION_LEN of the opcode; the VM moves the
\* program counter by the same number when it executes the opcode without
\* transferring control; so a run without control transfers fetches only at
\* boundaries the assembler assigned, and the image is as long as the final
\* running offset.
C23_LengthTablesAgree ==
  [][ /\ ImageLaidOutByTable'
      /\ StepsByTable
      /\ (OnStraightPath /\ OnStraightPath' /\ pc < Len(asm) /\ pc' <= Len(asm))
           => (pc \in Boundaries /\ pc' \in Boundaries) ]_vars

\* C23 happens: a run of ten instructions of the lengths 1, 2, 3 and 4 has
\* fetched each at the boundary the assembler gave it and ended at the
\* implicit exit
C23_Witness ==
  /\ phase = "exited"
  /\ OnStraightPath
  /\ Len(trace) = Len(buffer)
  /\ Len(trace) = 10
  /\ \A k \in 1..Len(trace) : trace[k].pc = BoundaryOf(k)
  /\ { INSTRUCTION_LEN(trace[k].op) : k \in 1..Len(trace) } = {1, 2, 3, 4}
  /\ pc = pos

\* a step of the run that executes the dbg stored at pc, with its operand
\* bytes in memory and a register 0..15
DebugStep ==
  /\ phase = "running"
  /\ Len(trace') = Len(trace) + 1
  /\ trace'[Len(trace')].op = Debug
  /\ ram[pc] = Debug
  /\ InRam(pc + 2)
  /\ ram[pc + 1] \in 0..15

\* C24: for every register 0..15 and every mode byte, recognized or not,
\* executing dbg changes no register, no byte of memory and not the flag,
\* and the run goes on 3 bytes further.
C24_DebugChangesNothing ==
  [][ DebugStep =>
        /\ registers' = registers
        /\ ram' = ram
        /\ skip_flag' = skip_flag
        /\ phase' = "running"
        /\ pc' = pc + 3 ]_vars

\* what the code does: no register, byte or flag changes, and the run goes
\* on 3 bytes further unless the mode is not recognized and the dump meets a
\* byte above 25 where it expects an opcode
C24_DebugChangesNothingUnlessDumpFaults ==
  [][ DebugStep =>
        /\ registers' = registers
        /\ ram' = ram
        /\ skip_flag' = skip_flag
        /\ phase' = "running" => pc' = pc + 3
        /\ phase' # "running" =>
             /\ phase' = "fault"
             /\ ~RecognizedMode(ram[pc + 2])
             /\ ~disassembly(ram) ]_vars

\* a dbg with an unrecognized mode has dumped the machine and the run went on
C24_DumpGoesOn ==
  /\ phase = "running"
  /\ Len(trace) >= 1
  /\ Last.op = Debug
  /\ InRam(Last.pc + 2)
  /\ ram[Last.pc] = Debug
  /\ ~RecognizedMode(ram[Last.pc + 2])
  /\ disassembly(ram)
  /\ pc = Last.pc + 3

\* this step is an instruction of the run
RunStep ==
  /\ phase = "running"
  /\ Len(trace') = Len(trace) + 1

\* the marker at pc must skip and the byte behind it is no opcode
MarkerPeeksInvalid ==
  /\ InRam(pc + 1)
  /\ ram[pc] \in {Then, Otherwise}
  /\ Skips(ram[pc], skip_flag)
  /\ ram[pc + 1] > Debug

\* C25: fetching a byte outside 0..25 as an opcode is a fatal fault that
\* stops the run without modifying a register or a byte of memory; the same
\* holds when a then or else that must skip peeks such a byte behind it.
C25_InvalidOpcodeFaults ==
  [][ (RunStep /\ InRam(pc) /\ (ram[pc] > Debug \/ MarkerPeeksInvalid)) =>
        /\ phase' = "fault"
        /\ registers' = registers
        /\ ram' = ram ]_vars

\* what the code does for the marker: indexing INSTRUCTION_LEN with the
\* byte panics, nothing is modified
C25_MarkerPeekFaults ==
  [][ (RunStep /\ InRam(pc) /\ MarkerPeeksInvalid) =>
        /\ phase' = "fault"
        /\ registers' = registers
        /\ ram' = ram ]_vars

\* a marker that had to skip has peeked a byte above 25 and the run stopped
C25_MarkerPeekReached ==
  /\ phase = "fault"
  /\ Len(trace) >= 1
  /\ Last.op = Then
  /\ ram[Last.pc] = Then
  /\ ram[Last.pc + 1] > Debug
  /\ ~skip_flag

\* the transmute of a byte above 25 ran the arm of an instruction that
\* changed a register, and the run went on
C25_InvalidByteRunsAnArm ==
  /\ phase = "running"
  /\ Len(trace) >= 1
  /\ ram[Last.pc] > Debug
  /\ registers # Last.registers

\* the arithmetic opcodes with two register operands, and all of them
TwoRegisterArithmetic == {Add, Sub, Mul, Div, Mod}
Arithmetic == TwoRegisterArithmetic \cup {Neg}

\* a step of the run that executes the arithmetic instruction stored at pc,
\* with its operand bytes in memory and registers 0..15
ArithmeticStep(op) ==
  /\ RunStep
  /\ trace'[Len(trace')].op = op
  /\ ram[pc] = op
  /\ InRam(pc + 2)
  /\ ram[pc + 1] \in 0..15
  /\ op \in TwoRegisterArithmetic => ram[pc + 2] \in 0..15

\* the quotient rounded toward zero and the remainder that goes with it
Quotient(x, y) ==
  IF (x < 0) = (y < 0) THEN Abs(x) \div Abs(y) ELSE 0 - (Abs(x) \div Abs(y))
Remainder(x, y) == x - y * Quotient(x, y)

\* the signed result of op on the signed contents x and y
SignedResult(op, x, y) ==
  CASE op = Add -> x + y
    [] op = Sub -> x - y
    [] op = Mul -> x * y
    [] op = Div -> Quotient(x, y)
    [] op = Mod -> Remainder(x, y)
    [] op = Neg -> 0 - x

\* the register the instruction at pc writes, if it is not register 0, holds
\* the signed result reduced mod 65536 after the step; a div or mod by zero
\* writes nothing
StoresReduced(op) ==
  LET a == ram[pc + 1]
      x == Signed(registers[a])
      y == IF op = Neg THEN 0 ELSE Signed(registers[ram[pc + 2]])
  IN  (a # 0 /\ ~(op \in {Div, Mod} /\ y = 0)) =>
        registers'[a] = SignedResult(op, x, y) % 65536

\* C26: for all register contents and all registers 0..15, add, sub, mul,
\* div, mod and neg complete without a fault and store the signed result
\* reduced mod 65536, the quotient of 0x8000 by 0xFFFF included.
C26_ArithmeticNeverFaults ==
  [][ \A op \in Arithmetic :
        ArithmeticStep(op) => (phase' = "running" /\ StoresReduced(op)) ]_vars

\* the signed result of the instruction at pc does not fit 16 bits
ResultOverflows(op) ==
  LET a == ram[pc + 1]
      x == Signed(registers[a])
      y == IF op = Neg THEN 0 ELSE Signed(registers[ram[pc + 2]])
  IN  /\ a # 0
      /\ ~(op \in {Div, Mod} /\ y = 0)
      /\ \/ OverflowsI16(SignedResult(op, x, y))
         \/ (op = Mod /\ x = 0 - 32768 /\ y = 0 - 1)

\* what the code does: the instruction stores the reduced result when it
\* completes; add and sub always complete, div and mod panic on 0x8000 by
\* 0xFFFF, mul and neg may panic when the result does not fit 16 bits (they
\* do in a build that checks arithmetic overflow)
C26_ArithmeticFaultsOnOverflow ==
  [][ \A op \in Arithmetic :
        ArithmeticStep(op) =>
          /\ phase' = "running" => StoresReduced(op)
          /\ phase' # "running" =>
               /\ phase' = "fault"
               /\ op \in {Mul, Div, Mod, Neg}
               /\ ResultOverflows(op)
               /\ registers' = registers
          /\ (op \in {Div, Mod} /\ ResultOverflows(op)) => phase' = "fault" ]_vars

\* a mul whose result does not fit 16 bits has stored the reduced result
C26_MulWraps ==
  /\ phase = "running"
  /\ Len(trace) >= 1
  /\ Last.op = Mul
  /\ ram[Last.pc] = Mul
  /\ ram[Last.pc + 1] = 1
  /\ ram[Last.pc + 2] = 2
  /\ Last.registers[1] = 32767
  /\ Last.registers[2] = 7
  /\ registers[1] = (32767 * 7) % 65536

\* the six comparison opcodes and the kinds of instruction they assemble from
Comparisons == {GreaterThan, LessThan, GreaterEqual, LessEqual, Equal, NotEqual}
ComparisonKinds ==
  {"GreaterThan", "LessThan", "GreaterEqual", "LessEqual", "Equal", "NotEqual"}
\* the kinds of instruction that set the program counter to a target or end
\* the run
ControlKinds == {"Exit", "Jump", "Return", "Call"}

\* the outcome of a comparison of the register contents x and y
Truth(op, x, y) ==
  CASE op = GreaterThan -> Signed(x) > Signed(y)
    [] op = LessThan -> Signed(x) < Signed(y)
    [] op = GreaterEqual -> Signed(x) >= Signed(y)
    [] op = LessEqual -> Signed(x) <= Signed(y)
    [] op = Equal -> x = y
    [] op = NotEqual -> x # y

\* the flag changes in no step but the execution of a comparison: not when
\* the byte fetched is the opcode of any other instruction, a then or an
\* else that skips or does not skip included, and not outside the run
FlagChangedOnlyByComparisons ==
  /\ ~RunStep => skip_flag' = skip_flag
  /\ (RunStep /\ InRam(pc) /\ ram[pc] \in (0..Debug) \ Comparisons) => skip_flag' = skip_flag

\* where the list holds compare; then; I1; else; I2 with I1 and I2
\* instructions, I1 of none of the excluded kinds
Conditionals(excluded) ==
  { n \in 1..(Len(insts) - 4) :
      /\ insts[n].op \in ComparisonKinds
      /\ insts[n + 1].op = "Then"
      /\ insts[n + 2].op \notin ({"Label"} \cup ComparisonKinds \cup excluded)
      /\ insts[n + 3].op = "Otherwise"
      /\ insts[n + 4].op # "Label" }

\* the run from the k-th instruction executed, the comparison of the
\* conditional at n, on: with the outcome true the then lets I1 execute and
\* the else skips I2; with the outcome false the then skips I1 and the else
\* lets I2 execute; as far as the run got
OneBranchRuns(n, k) ==
  LET c == OffsetOf(insts, n)
      i1 == OffsetOf(insts, n + 2)
      e == OffsetOf(insts, n + 3)
      i2 == OffsetOf(insts, n + 4)
      end == OffsetOf(insts, n + 5)
      outcome == Truth(asm[c + 1], trace[k].registers[asm[c + 2]],
                       trace[k].registers[asm[c + 3]])
      at(j) == trace[k + j].pc
      got(j) == Len(trace) >= k + j
  IN  /\ got(1) => at(1) = c + 3
      /\ outcome =>
           /\ got(2) => at(2) = i1
           /\ got(3) => at(3) = e
           /\ got(4) => at(4) = end
      /\ ~outcome =>
           /\ got(2) => at(2) = e
           /\ got(3) => at(3) = i2

\* every conditional whose bytes are in memory as assembled ran one branch
\* each time its comparison was executed
ConditionalsRunOneBranch(excluded) ==
  (phase \in {"running", "exited", "fault"} /\ buffer # << >>) =>
    \A n \in Conditionals(excluded) :
      Intact(OffsetOf(insts, n), OffsetOf(insts, n + 5) - OffsetOf(insts, n)) =>
        \A k \in 1..Len(trace) :
          (trace[k].pc = OffsetOf(insts, n) /\ trace[k].op = asm[OffsetOf(insts, n) + 1])
            => OneBranchRuns(n, k)

\* C27: only the six comparisons change the flag, then and else and every
\* other instruction leave it as it is, and in compare; then; I1; else; I2
\* exactly one of I1 and I2 executes whenever I1 is neither a comparison nor
\* a control transfer.
C27_OneComparisonGovernsBothMarkers ==
  [][ FlagChangedOnlyByComparisons /\ ConditionalsRunOneBranch(ControlKinds)' ]_vars

\* C27 as amended: the same, whenever I1 is neither a comparison, a control
\* transfer nor an else.
C27_OneComparisonGovernsBothMarkersUnlessElse ==
  [][ FlagChangedOnlyByComparisons
      /\ ConditionalsRunOneBranch(ControlKinds \cup {"Otherwise"})' ]_vars

\* C27 happens: a comparison came out true, I1 has loaded a register, the
\* else has skipped I2, and the flag is still the one the comparison set
C27_Witness ==
  /\ phase = "exited"
  /\ buffer # << >>
  /\ \E n \in Conditionals(ControlKinds \cup {"Otherwise"}) :
       /\ insts[n + 2].op = "SetByte"
       /\ insts[n + 4].op = "SetShort"
       /\ \E k \in 1..(Len(trace) - 4) :
            /\ trace[k].pc = OffsetOf(insts, n)
            /\ trace[k + 1].op = Then
            /\ trace[k + 2].op = SetByte
            /\ trace[k + 3].op = Otherwise
            /\ trace[k + 4].pc = OffsetOf(insts, n + 5)
            /\ trace[k + 4].op = Exit
            /\ registers[insts[n + 2].a] = insts[n + 2].b
            /\ registers[insts[n + 4].a] = 0
  /\ skip_flag

====
